---- MODULE Spec2Model ----
(***************************************************************************)
(* Verification model of the operational-infrastructure layer of the      *)
(* location-intelligence backend: the sliding-window rate limiter         *)
(* (src/core/rate_limit.py, in-memory and Redis variants) and the cache   *)
(* (src/core/cache.py).                                                    *)
(*                                                                         *)
(* Time is the value of time.time(), modelled as an integer number of     *)
(* seconds.  A Redis sorted-set member is str(now) with score now; str is *)
(* injective on floats, so a member is modelled by its timestamp and the  *)
(* sorted set by the set of its members.                                   *)
(***************************************************************************)
EXTENDS Integers, Sequences, FiniteSets, TLC

\* ------------------------------------------------------------------ bounds
MaxTime == 2
MaxCalls == 4

Procs == {"p1", "p2"}
Keys == {"k1", "k2"}
Limits == {1, 2}
Windows == {2}

Free == "free"
NoExpiry == -1

VARIABLES
    backend,    \* _rate_limiter: "local" (InMemoryRateLimiter) or "redis"
    limit,      \* limit argument of is_rate_limited
    window,     \* window_seconds argument of is_rate_limited
    now,        \* time.time()
    requests,   \* InMemoryRateLimiter._requests: key -> list of timestamps
    lock,       \* InMemoryRateLimiter._lock: holder or Free
    zset,       \* Redis sorted set "rate_limit:<key>": key -> set of members
    expireAt,   \* Redis expiry of "rate_limit:<key>" (NoExpiry: none)
    pc,         \* position of each caller
    arg,        \* key argument of the call in progress
    tnow,       \* local variable now of the call in progress
    cnt,        \* local variable current_count of the call in progress
    log,        \* history: key -> sequence of completed operations
    cache,      \* InMemoryCache._cache: dict key -> (value, expires_at)
    lastSet,    \* history: key -> the last set not followed by delete/clear
    ret,        \* the last cache operation and what it returned
    opCount,    \* number of cache operations performed
    cacheBackend, \* _cache: "local" (InMemoryCache) or "redis" (RedisCache)
    store,      \* the Redis keyspace: full key -> stored text and expiry
    scan,       \* RedisCache.clear in progress: position, cursor, keys
    cacheLock,  \* InMemoryCache._lock: Free or the coroutine holding it
    cpc,        \* coroutine -> position inside its cache call
    cop,        \* coroutine -> the call it is making
    clocal,     \* coroutine -> the entry get read into (value, expires_at)
    cres,       \* coroutine -> the result its call computed
    cexp,       \* coroutine -> the result of the same call run atomically
    absCache,   \* the dict as the atomic calls leave it
    ccount,     \* number of concurrent calls invoked
    mpc,        \* position inside the cached wrapper
    mcall,      \* the wrapper call in progress: arguments, key, result
    memoLog,    \* completed wrapper calls
    wst,        \* concurrent wrapper callers: position, key, result
    wstarted,   \* number of concurrent wrapper calls started
    wcalls,     \* number of invocations of the wrapped operation
    wwrites,    \* the cache.set calls made by concurrent wrapper callers
    enabled,    \* settings.rate_limit_enabled
    spc,        \* position of the lifespan manager's startup
    probe,      \* outcome of the startup connection test
    storeState, \* the shared store: "up", "down" (refuses) or "hung"
    rq,         \* the request in progress: position, decision, response
    handled,    \* number of requests that reached the business logic
    reqCount,   \* number of requests started
    outLog,     \* responses sent, in order
    users,      \* the users table: id -> is_active, is_superuser
    nextId,     \* the next value of the id sequence
    tokens,     \* the tokens issued so far
    authRes,    \* the last authentication-related call and its answer
    authCount,  \* number of calls that issue tokens or change users
    rejected,   \* history: unexpired access tokens a request answered 401
    geo,        \* the geocode request in progress
    geoLog      \* history: the geocode requests answered, in order

rlState == <<backend, limit, window, requests, lock, zset, expireAt,
             pc, arg, tnow, cnt, log>>
cacheVars == <<cache, lastSet, ret, opCount>>

storeVars == <<cacheBackend, store, scan>>
concVars == <<cacheLock, cpc, cop, clocal, cres, cexp, absCache, ccount>>
memoVars == <<mpc, mcall, memoLog>>
raceVars == <<wst, wstarted, wcalls, wwrites>>
appVars == <<enabled, spc, probe, storeState, rq, handled, reqCount, outLog>>
authVars == <<users, nextId, tokens, authRes, authCount, rejected>>
geoVars == <<geo, geoLog>>
extVars == <<raceVars, appVars, authVars, geoVars>>
otherVars == <<concVars, memoVars, extVars>>
restVars == <<storeVars, otherVars>>

vars == <<now, rlState, cacheVars, restVars>>

\* ----------------------------------------------------------------- helpers
\* [ts for ts in self._requests[key] if ts > window_start]
PruneGe(s, windowStart) == SelectSeq(s, LAMBDA ts : ts >= windowStart)
Prune(s, windowStart) == SelectSeq(s, LAMBDA ts : ts > windowStart)

\* limit - current_count - 1
RemainingOffByOne(lim, count) == lim - count
Remaining(lim, count) == lim - count - 1

CheckEntry(t, limited, remaining) ==
    [op |-> "check", t |-> t, limited |-> limited, remaining |-> remaining]
ResetEntry(t) ==
    [op |-> "reset", t |-> t, limited |-> FALSE, remaining |-> 0]

\* the call returns: its frame (key, now, current_count) is discarded
Return(p) ==
    /\ pc' = [pc EXCEPT ![p] = "idle"]
    /\ arg' = [arg EXCEPT ![p] = "k1"]
    /\ tnow' = [tnow EXCEPT ![p] = 0]
    /\ cnt' = [cnt EXCEPT ![p] = 0]

RECURSIVE Entries(_, _)
Entries(L, ks) ==
    IF ks = {} THEN 0
    ELSE LET k == CHOOSE x \in ks : TRUE
         IN  Len(L[k]) + Entries(L, ks \ {k})
TotalCalls == Entries(log, DOMAIN log)
InFlight == Cardinality({p \in Procs : pc[p] # "idle"})

\* --------------------------------------------------- InMemoryRateLimiter
\* A request enters is_rate_limited and waits for the lock.
LocalEnter(p, k) ==
    /\ backend = "local"
    /\ pc[p] = "idle"
    /\ pc' = [pc EXCEPT ![p] = "lock"]
    /\ arg' = [arg EXCEPT ![p] = k]
    /\ UNCHANGED <<backend, limit, window, now, requests, lock, zset,
                   expireAt, tnow, cnt, log>>
    /\ UNCHANGED cacheVars
    /\ UNCHANGED restVars

LocalCall(p, k) == TotalCalls + InFlight < MaxCalls /\ LocalEnter(p, k)

\* async with self._lock
LocalAcquireNoLock(p) ==
    /\ pc[p] = "lock"
    /\ lock' = p
    /\ pc' = [pc EXCEPT ![p] = "prune"]
    /\ UNCHANGED <<backend, limit, window, now, requests, zset, expireAt,
                   arg, tnow, cnt, log>>
    /\ UNCHANGED cacheVars
    /\ UNCHANGED restVars
LocalAcquire(p) ==
    /\ pc[p] = "lock"
    /\ lock = Free
    /\ lock' = p
    /\ pc' = [pc EXCEPT ![p] = "prune"]
    /\ UNCHANGED <<backend, limit, window, now, requests, zset, expireAt,
                   arg, tnow, cnt, log>>
    /\ UNCHANGED cacheVars
    /\ UNCHANGED restVars

\* now, window_start, the clean-up of old entries and current_count
LocalPrune(p) ==
    /\ pc[p] = "prune"
    /\ tnow' = [tnow EXCEPT ![p] = now]
    /\ requests' = [requests EXCEPT ![arg[p]] = Prune(@, now - window)]
    /\ cnt' = [cnt EXCEPT ![p] = Len(requests'[arg[p]])]
    /\ pc' = [pc EXCEPT ![p] = "decide"]
    /\ UNCHANGED <<backend, limit, window, now, lock, zset, expireAt, arg, log>>
    /\ UNCHANGED cacheVars
    /\ UNCHANGED restVars

\* the comparison with limit, the append, the return and the lock release
LocalDecideAlwaysAppend(p) ==
    /\ pc[p] = "decide"
    /\ requests' = [requests EXCEPT ![arg[p]] = Append(@, tnow[p])]
    /\ IF cnt[p] >= limit
         THEN log' = [log EXCEPT ![arg[p]] = Append(@, CheckEntry(tnow[p], TRUE, 0))]
         ELSE log' = [log EXCEPT ![arg[p]] =
                        Append(@, CheckEntry(tnow[p], FALSE, Remaining(limit, cnt[p])))]
    /\ lock' = Free
    /\ Return(p)
    /\ UNCHANGED <<backend, limit, window, now, zset, expireAt>>
    /\ UNCHANGED cacheVars
    /\ UNCHANGED restVars
LocalDecide(p) ==
    /\ pc[p] = "decide"
    /\ IF cnt[p] >= limit
         THEN /\ log' = [log EXCEPT ![arg[p]] = Append(@, CheckEntry(tnow[p], TRUE, 0))]
              /\ UNCHANGED requests
         ELSE /\ requests' = [requests EXCEPT ![arg[p]] = Append(@, tnow[p])]
              /\ log' = [log EXCEPT ![arg[p]] =
                           Append(@, CheckEntry(tnow[p], FALSE, Remaining(limit, cnt[p])))]
    /\ lock' = Free
    /\ Return(p)
    /\ UNCHANGED <<backend, limit, window, now, zset, expireAt>>
    /\ UNCHANGED cacheVars
    /\ UNCHANGED restVars

\* cleanup: under the lock, every key keeps the timestamps of the last hour;
\* a key left empty is deleted, which reads as the empty list again
Retention == 3600
LocalCleanupShort ==
    /\ backend = "local"
    /\ lock = Free
    /\ requests' = [k \in Keys |-> SelectSeq(requests[k], LAMBDA ts : ts > now - 60)]
    /\ UNCHANGED <<backend, limit, window, now, lock, zset, expireAt,
                   pc, arg, tnow, cnt, log>>
    /\ UNCHANGED cacheVars
    /\ UNCHANGED restVars
LocalCleanup ==
    /\ backend = "local"
    /\ lock = Free
    /\ requests' = [k \in Keys |-> SelectSeq(requests[k], LAMBDA ts : ts > now - Retention)]
    /\ UNCHANGED <<backend, limit, window, now, lock, zset, expireAt,
                   pc, arg, tnow, cnt, log>>
    /\ UNCHANGED cacheVars
    /\ UNCHANGED restVars

\* reset: self._requests.pop(key, None) under the lock
LocalResetAll(p, k) ==
    /\ backend = "local"
    /\ pc[p] = "idle"
    /\ lock = Free
    /\ TotalCalls + InFlight < MaxCalls
    /\ requests' = [j \in Keys |-> <<>>]
    /\ log' = [log EXCEPT ![k] = Append(@, ResetEntry(now))]
    /\ UNCHANGED <<backend, limit, window, now, lock, zset, expireAt,
                   pc, arg, tnow, cnt>>
    /\ UNCHANGED cacheVars
    /\ UNCHANGED restVars
LocalReset(p, k) ==
    /\ backend = "local"
    /\ pc[p] = "idle"
    /\ lock = Free
    /\ TotalCalls + InFlight < MaxCalls
    /\ requests' = [requests EXCEPT ![k] = <<>>]
    /\ log' = [log EXCEPT ![k] = Append(@, ResetEntry(now))]
    /\ UNCHANGED <<backend, limit, window, now, lock, zset, expireAt,
                   pc, arg, tnow, cnt>>
    /\ UNCHANGED cacheVars
    /\ UNCHANGED restVars

\* ------------------------------------------------------- RedisRateLimiter
\* The key is gone once the store's clock has passed its expiry.
Live(k) == IF expireAt[k] # NoExpiry /\ now > expireAt[k] THEN {} ELSE zset[k]

\* now = time.time(); window_start; rate_key
RedisEnter(p, k) ==
    /\ backend = "redis"
    /\ pc[p] = "idle"
    /\ pc' = [pc EXCEPT ![p] = "pipe"]
    /\ arg' = [arg EXCEPT ![p] = k]
    /\ tnow' = [tnow EXCEPT ![p] = now]
    /\ UNCHANGED <<backend, limit, window, now, requests, lock, zset,
                   expireAt, cnt, log>>
    /\ UNCHANGED cacheVars
    /\ UNCHANGED restVars

RedisCall(p, k) == TotalCalls + InFlight < MaxCalls /\ RedisEnter(p, k)

\* pipe.execute(): ZREMRANGEBYSCORE 0 window_start, ZCARD, ZADD, EXPIRE in
\* one MULTI/EXEC transaction, then the comparison with limit
RedisPipelineNoExpire(p) ==
    /\ pc[p] = "pipe"
    /\ LET k == arg[p]
           windowStart == tnow[p] - window
           kept == {m \in Live(k) : ~(0 <= m /\ m <= windowStart)}
           count == Cardinality(kept)
       IN  /\ zset' = [zset EXCEPT ![k] = kept \cup {tnow[p]}]
           /\ UNCHANGED expireAt
           /\ IF count >= limit
                THEN /\ log' = [log EXCEPT ![k] = Append(@, CheckEntry(tnow[p], TRUE, 0))]
                     /\ pc' = [pc EXCEPT ![p] = "zrem"]
                     /\ cnt' = [cnt EXCEPT ![p] = count]
                     /\ UNCHANGED <<arg, tnow>>
                ELSE /\ log' = [log EXCEPT ![k] =
                                  Append(@, CheckEntry(tnow[p], FALSE, Remaining(limit, count)))]
                     /\ Return(p)
    /\ UNCHANGED <<backend, limit, window, now, requests, lock>>
    /\ UNCHANGED cacheVars
    /\ UNCHANGED restVars
RedisPipeline(p) ==
    /\ pc[p] = "pipe"
    /\ LET k == arg[p]
           windowStart == tnow[p] - window
           kept == {m \in Live(k) : ~(0 <= m /\ m <= windowStart)}
           count == Cardinality(kept)
       IN  /\ zset' = [zset EXCEPT ![k] = kept \cup {tnow[p]}]
           /\ expireAt' = [expireAt EXCEPT ![k] = now + window]
           /\ IF count >= limit
                THEN /\ log' = [log EXCEPT ![k] = Append(@, CheckEntry(tnow[p], TRUE, 0))]
                     /\ pc' = [pc EXCEPT ![p] = "zrem"]
                     /\ cnt' = [cnt EXCEPT ![p] = count]
                     /\ UNCHANGED <<arg, tnow>>
                ELSE /\ log' = [log EXCEPT ![k] =
                                  Append(@, CheckEntry(tnow[p], FALSE, Remaining(limit, count)))]
                     /\ Return(p)
    /\ UNCHANGED <<backend, limit, window, now, requests, lock>>
    /\ UNCHANGED cacheVars
    /\ UNCHANGED restVars

\* await self._redis.zrem(rate_key, str(now)); return True, 0
RedisZrem(p) ==
    /\ pc[p] = "zrem"
    /\ LET k == arg[p]
           left == Live(k) \ {tnow[p]}
       IN  /\ zset' = [zset EXCEPT ![k] = left]
           /\ expireAt' = [expireAt EXCEPT ![k] = IF left = {} THEN NoExpiry ELSE @]
    /\ Return(p)
    /\ UNCHANGED <<backend, limit, window, now, requests, lock, log>>
    /\ UNCHANGED cacheVars
    /\ UNCHANGED restVars

\* reset: DELETE rate_limit:<key>
RedisReset(p, k) ==
    /\ backend = "redis"
    /\ pc[p] = "idle"
    /\ TotalCalls + InFlight < MaxCalls
    /\ zset' = [zset EXCEPT ![k] = {}]
    /\ expireAt' = [expireAt EXCEPT ![k] = NoExpiry]
    /\ log' = [log EXCEPT ![k] = Append(@, ResetEntry(now))]
    /\ UNCHANGED <<backend, limit, window, now, requests, lock, pc, arg, tnow, cnt>>
    /\ UNCHANGED cacheVars
    /\ UNCHANGED restVars

\* ------------------------------------------- rate_limit_dependency: the key
\* A string is the sequence of its characters. request.client is absent for
\* some transports; the route path always starts with "/", and a host never
\* contains one.
NoClient == <<>>
Unknown == <<"u", "n", "k", "n", "o", "w", "n">>
ClientHosts == {NoClient, <<"1">>, <<"1", ":", "1">>}
RoutePaths == {<<"/">>, <<"/", ":", "1">>}
Callers == ClientHosts \X RoutePaths

\* key = f"{client_ip}:{request.url.path}"
DefaultKeyHostOnly(host, path) == IF host = NoClient THEN Unknown ELSE host
DefaultKey(host, path) ==
    LET client_ip == IF host = NoClient THEN Unknown ELSE host
    IN  client_ip \o <<":">> \o path

ClientKeys == {DefaultKey(c[1], c[2]) : c \in Callers}

\* ----------------------------------------------------------- InMemoryCache
\* Every method body runs under self._lock without a suspension point, so a
\* method is one atomic step.
None == "None"
NoTTL == -1
MaxOps == 4
Values == {"a", None}
TTLs == {NoTTL, 0, 1, 2}
CachesTTLs == {NoTTL, 1}
CachesMaxTime == 1
CachesOps == 3

Entry(value, expiresAt) == [value |-> value, expiresAt |-> expiresAt]
NeverSet == [set |-> FALSE, value |-> None, t |-> 0, ttl |-> NoTTL, over |-> FALSE]
LastSet(v, ttl, over) == [set |-> TRUE, value |-> v, t |-> now, ttl |-> ttl, over |-> over]
Ret(op, k, val, flag, n, t) ==
    [op |-> op, key |-> k, val |-> val, flag |-> flag, n |-> n, t |-> t]

Without(d, ks) == [j \in DOMAIN d \ ks |-> d[j]]
With(d, k, e) == [j \in DOMAIN d \cup {k} |-> IF j = k THEN e ELSE d[j]]

\* expires_at is not None and time.time() > expires_at
IsExpiredGe(e) == e.expiresAt # NoExpiry /\ now >= e.expiresAt
IsExpired(e) == e.expiresAt # NoExpiry /\ now > e.expiresAt

\* expires_at = time.time() + ttl if ttl else None
ExpiresAtNoneIsZero(ttl) == IF ttl = NoTTL \/ ttl = 0 THEN now ELSE now + ttl
ExpiresAt(ttl) == IF ttl = NoTTL \/ ttl = 0 THEN NoExpiry ELSE now + ttl

\* what get returns and the dict it leaves
GetValue(k) ==
    IF k \notin DOMAIN cache THEN None
    ELSE IF IsExpired(cache[k]) THEN None
    ELSE cache[k].value
GetCacheNoEvict(k) == cache
GetCache(k) ==
    IF k \in DOMAIN cache /\ IsExpired(cache[k]) THEN Without(cache, {k}) ELSE cache

CacheGet(k) ==
    /\ opCount < MaxOps
    /\ cache' = GetCache(k)
    /\ ret' = Ret("get", k, GetValue(k), FALSE, 0, now)
    /\ opCount' = opCount + 1
    /\ UNCHANGED <<now, rlState, lastSet>>
    /\ UNCHANGED restVars

CacheSet(k, v, ttl) ==
    /\ opCount < MaxOps
    /\ cache' = With(cache, k, Entry(v, ExpiresAt(ttl)))
    /\ lastSet' = [lastSet EXCEPT ![k] = LastSet(v, ttl, k \in DOMAIN cache)]
    /\ ret' = Ret("set", k, None, FALSE, 0, now)
    /\ opCount' = opCount + 1
    /\ UNCHANGED <<now, rlState>>
    /\ UNCHANGED restVars

CacheDelete(k) ==
    /\ opCount < MaxOps
    /\ cache' = Without(cache, {k})
    /\ lastSet' = [lastSet EXCEPT ![k] = NeverSet]
    /\ ret' = Ret("delete", k, None, FALSE, IF k \in DOMAIN cache THEN 1 ELSE 0, now)
    /\ opCount' = opCount + 1
    /\ UNCHANGED <<now, rlState>>
    /\ UNCHANGED restVars

\* value = await self.get(key); return value is not None
CacheExists(k) ==
    /\ opCount < MaxOps
    /\ cache' = GetCache(k)
    /\ ret' = Ret("exists", k, None, GetValue(k) # None, 0, now)
    /\ opCount' = opCount + 1
    /\ UNCHANGED <<now, rlState, lastSet>>
    /\ UNCHANGED restVars

CacheClear ==
    /\ opCount < MaxOps
    /\ cache' = <<>>
    /\ lastSet' = [k \in Keys |-> NeverSet]
    /\ ret' = Ret("clear", "k1", None, FALSE, 0, now)
    /\ opCount' = opCount + 1
    /\ UNCHANGED <<now, rlState>>
    /\ UNCHANGED restVars

CacheCleanupExpired ==
    /\ opCount < MaxOps
    /\ LET expiredKeys == {k \in DOMAIN cache : IsExpired(cache[k])}
       IN  /\ cache' = Without(cache, expiredKeys)
           /\ ret' = Ret("cleanup_expired", "k1", None, FALSE, Cardinality(expiredKeys), now)
    /\ opCount' = opCount + 1
    /\ UNCHANGED <<now, rlState, lastSet>>
    /\ UNCHANGED restVars

\* -------------------------------------------------------------- RedisCache
\* Python values handed to the cache: the str "a", None, the str "123" and
\* the int 123; Redis holds text.
Str123 == "str 123"
Int123 == "int 123"
PyValues == {"a", None, Str123, Int123}
CachesValues == {"a", None, Str123}
IsStr(v) == v \in {"a", Str123}
StrText(v) == IF v = Str123 THEN "123" ELSE "a"
StrOf(t) == IF t = "123" THEN Str123 ELSE "a"
JsonDumps(v) == IF v = None THEN "null" ELSE "123"
IsJson(t) == t \in {"null", "123"}
JsonLoads(t) == IF t = "null" THEN None ELSE Int123

\* serialized = json.dumps(value) if not isinstance(value, str) else value
Serialize(v) == IF IsStr(v) THEN StrText(v) ELSE JsonDumps(v)
\* try: json.loads(value)  except JSONDecodeError: value
Deserialize(t) == IF IsJson(t) THEN JsonLoads(t) ELSE StrOf(t)

\* full Redis keys are <<prefix, rest>>; _make_key prepends "cache:"
Prefix == "cache:"
MakeKey(k) == <<Prefix, k>>
ForeignKeys == {<<"rate_limit:", "k1">>, <<"session:", "k1">>}
KeySpace == {MakeKey(k) : k \in Keys} \cup ForeignKeys
\* match=f"{self._prefix}*"
MatchesAll(fk) == TRUE
Matches(fk) == fk[1] = Prefix

StoredText(t, e) == [text |-> t, expireAt |-> e]
ForeignStore == [fk \in ForeignKeys |-> StoredText("x", NoExpiry)]
\* a key Redis still serves: present and not past its expiry
LiveIn(st, t, fk) ==
    fk \in DOMAIN st /\ ~(st[fk].expireAt # NoExpiry /\ t > st[fk].expireAt)
StoreLive(fk) == LiveIn(store, now, fk)
ScanIdle == [pc |-> "idle", visited |-> {}, keys |-> {}, removed |-> 0, wrote |-> FALSE]

\* what RedisCache.get returns
RedisGetValue(k) ==
    IF StoreLive(MakeKey(k)) THEN Deserialize(store[MakeKey(k)].text) ELSE None

RedisCacheGet(k) ==
    /\ cacheBackend = "redis"
    /\ opCount < CachesOps
    /\ ret' = Ret("get", k, RedisGetValue(k), FALSE, 0, now)
    /\ opCount' = opCount + 1
    /\ UNCHANGED <<now, rlState, cache, lastSet, storeVars>>
    /\ UNCHANGED otherVars

\* SETEX when ttl is truthy, plain SET (which drops any expiry) otherwise
RedisExpireAt(ttl) == IF ttl = NoTTL \/ ttl = 0 THEN NoExpiry ELSE now + ttl
RedisCacheSet(k, v, ttl) ==
    /\ cacheBackend = "redis"
    /\ opCount < CachesOps
    /\ store' = With(store, MakeKey(k), StoredText(Serialize(v), RedisExpireAt(ttl)))
    /\ scan' = IF scan.pc = "idle" THEN scan ELSE [scan EXCEPT !.wrote = TRUE]
    /\ lastSet' = [lastSet EXCEPT ![k] = LastSet(v, ttl, StoreLive(MakeKey(k)))]
    /\ ret' = Ret("set", k, None, FALSE, 0, now)
    /\ opCount' = opCount + 1
    /\ UNCHANGED <<now, rlState, cache, cacheBackend>>
    /\ UNCHANGED otherVars

RedisCacheDeleteNoop(k) ==
    /\ cacheBackend = "redis"
    /\ opCount < CachesOps
    /\ lastSet' = [lastSet EXCEPT ![k] = NeverSet]
    /\ ret' = Ret("delete", k, None, FALSE, IF StoreLive(MakeKey(k)) THEN 1 ELSE 0, now)
    /\ opCount' = opCount + 1
    /\ UNCHANGED <<now, rlState, cache, storeVars>>
    /\ UNCHANGED otherVars
RedisCacheDelete(k) ==
    /\ cacheBackend = "redis"
    /\ opCount < CachesOps
    /\ store' = Without(store, {MakeKey(k)})
    /\ lastSet' = [lastSet EXCEPT ![k] = NeverSet]
    /\ ret' = Ret("delete", k, None, FALSE, IF StoreLive(MakeKey(k)) THEN 1 ELSE 0, now)
    /\ opCount' = opCount + 1
    /\ UNCHANGED <<now, rlState, cache, cacheBackend, scan>>
    /\ UNCHANGED otherVars

\* EXISTS key > 0
RedisCacheExists(k) ==
    /\ cacheBackend = "redis"
    /\ opCount < CachesOps
    /\ ret' = Ret("exists", k, None, StoreLive(MakeKey(k)), 0, now)
    /\ opCount' = opCount + 1
    /\ UNCHANGED <<now, rlState, cache, lastSet, storeVars>>
    /\ UNCHANGED otherVars

\* cursor = 0
RedisCacheClearStart ==
    /\ cacheBackend = "redis"
    /\ opCount < CachesOps
    /\ scan.pc = "idle"
    /\ scan' = [ScanIdle EXCEPT !.pc = "scan"]
    /\ opCount' = opCount + 1
    /\ UNCHANGED <<now, rlState, cache, lastSet, ret, cacheBackend, store>>
    /\ UNCHANGED otherVars

\* one SCAN call: Redis walks some more of the keyspace and returns the
\* keys it passed that match the pattern; cursor 0 when the walk is over
RedisCacheClearScan ==
    /\ scan.pc = "scan"
    /\ \E batch \in SUBSET (KeySpace \ scan.visited) :
        /\ batch # {}
        /\ scan' = [scan EXCEPT !.pc = "delete",
                                !.visited = scan.visited \cup batch,
                                !.keys = {fk \in batch : StoreLive(fk) /\ Matches(fk)}]
    /\ UNCHANGED <<now, rlState, cacheVars, cacheBackend, store>>
    /\ UNCHANGED otherVars

\* if keys: DELETE *keys;  if cursor == 0: break
RedisCacheClearDelete ==
    /\ scan.pc = "delete"
    /\ LET removed == scan.removed + Cardinality({fk \in scan.keys : StoreLive(fk)})
           done == scan.visited = KeySpace
       IN  /\ store' = Without(store, scan.keys)
           /\ lastSet' = [k \in Keys |->
                            IF MakeKey(k) \in scan.keys THEN NeverSet ELSE lastSet[k]]
           /\ scan' = [scan EXCEPT !.pc = IF done THEN "idle" ELSE "scan",
                                   !.keys = {}, !.removed = removed]
           /\ ret' = IF done THEN Ret("clear", "k1", None, FALSE, removed, now) ELSE ret
    /\ UNCHANGED <<now, rlState, cache, opCount, cacheBackend>>
    /\ UNCHANGED otherVars

\* ------------------------------------------- InMemoryCache, concurrent calls
\* Each call is invoked, waits for _lock, runs its body statement by
\* statement, then releases the lock and returns.
ConcCalls == 3
ConcValues == {"a", "b"}
ConcTTLs == {NoTTL, 1}
NoOp == [op |-> "none", key |-> "k1", value |-> None, ttl |-> NoTTL]
NoEntry == Entry(None, NoExpiry)
NoRes == [done |-> FALSE, val |-> None]
Res(v) == [done |-> TRUE, val |-> v]

\* the atomic get on the dict the atomic calls maintain
AbsGetValue(k) ==
    IF k \notin DOMAIN absCache THEN None
    ELSE IF IsExpired(absCache[k]) THEN None
    ELSE absCache[k].value
AbsGetCache(k) ==
    IF k \in DOMAIN absCache /\ IsExpired(absCache[k])
    THEN Without(absCache, {k}) ELSE absCache

ConcFrame == UNCHANGED <<now, rlState, lastSet, ret, opCount, storeVars, memoVars, extVars>>

ConcInvoke(p, op, k, v, ttl) ==
    /\ cpc[p] = "idle"
    /\ ccount < ConcCalls
    /\ cop' = [cop EXCEPT ![p] = [op |-> op, key |-> k, value |-> v, ttl |-> ttl]]
    /\ cpc' = [cpc EXCEPT ![p] = "acquire"]
    /\ ccount' = ccount + 1
    /\ UNCHANGED <<cacheLock, clocal, cres, cexp, absCache, cache>>
    /\ ConcFrame

\* async with self._lock
BodyStart(op) == IF op \in {"get", "exists"} THEN "read" ELSE op
ConcAcquireNoLock(p) ==
    /\ cpc[p] = "acquire"
    /\ cacheLock' = p
    /\ cpc' = [cpc EXCEPT ![p] = BodyStart(cop[p].op)]
    /\ UNCHANGED <<cop, clocal, cres, cexp, absCache, ccount, cache>>
    /\ ConcFrame
ConcAcquire(p) ==
    /\ cpc[p] = "acquire"
    /\ cacheLock = Free
    /\ cacheLock' = p
    /\ cpc' = [cpc EXCEPT ![p] = BodyStart(cop[p].op)]
    /\ UNCHANGED <<cop, clocal, cres, cexp, absCache, ccount, cache>>
    /\ ConcFrame

\* if key not in self._cache: return None
\* value, expires_at = self._cache[key]
ConcGetRead(p) ==
    /\ cpc[p] = "read"
    /\ IF cop[p].key \notin DOMAIN cache
       THEN /\ cres' = [cres EXCEPT ![p] = Res(None)]
            /\ cexp' = [cexp EXCEPT ![p] = Res(AbsGetValue(cop[p].key))]
            /\ absCache' = AbsGetCache(cop[p].key)
            /\ cpc' = [cpc EXCEPT ![p] = "release"]
            /\ UNCHANGED clocal
       ELSE /\ clocal' = [clocal EXCEPT ![p] = cache[cop[p].key]]
            /\ cpc' = [cpc EXCEPT ![p] = "check"]
            /\ UNCHANGED <<cres, cexp, absCache>>
    /\ UNCHANGED <<cacheLock, cop, ccount, cache>>
    /\ ConcFrame

\* if expires_at is not None and time.time() > expires_at:
\*     del self._cache[key]; return None
\* return value
ConcGetCheck(p) ==
    /\ cpc[p] = "check"
    /\ IF IsExpired(clocal[p])
       THEN /\ cache' = Without(cache, {cop[p].key})
            /\ cres' = [cres EXCEPT ![p] = Res(None)]
       ELSE /\ cres' = [cres EXCEPT ![p] = Res(clocal[p].value)]
            /\ UNCHANGED cache
    /\ cexp' = [cexp EXCEPT ![p] = Res(AbsGetValue(cop[p].key))]
    /\ absCache' = AbsGetCache(cop[p].key)
    /\ clocal' = [clocal EXCEPT ![p] = NoEntry]
    /\ cpc' = [cpc EXCEPT ![p] = "release"]
    /\ UNCHANGED <<cacheLock, cop, ccount>>
    /\ ConcFrame

ConcSet(p) ==
    /\ cpc[p] = "set"
    /\ LET e == Entry(cop[p].value, ExpiresAt(cop[p].ttl))
       IN  /\ cache' = With(cache, cop[p].key, e)
           /\ absCache' = With(absCache, cop[p].key, e)
    /\ cres' = [cres EXCEPT ![p] = Res(None)]
    /\ cexp' = [cexp EXCEPT ![p] = Res(None)]
    /\ cpc' = [cpc EXCEPT ![p] = "release"]
    /\ UNCHANGED <<cacheLock, cop, clocal, ccount>>
    /\ ConcFrame

ConcDelete(p) ==
    /\ cpc[p] = "delete"
    /\ cache' = Without(cache, {cop[p].key})
    /\ absCache' = Without(absCache, {cop[p].key})
    /\ cres' = [cres EXCEPT ![p] = Res(None)]
    /\ cexp' = [cexp EXCEPT ![p] = Res(None)]
    /\ cpc' = [cpc EXCEPT ![p] = "release"]
    /\ UNCHANGED <<cacheLock, cop, clocal, ccount>>
    /\ ConcFrame

ConcClear(p) ==
    /\ cpc[p] = "clear"
    /\ cache' = <<>>
    /\ absCache' = <<>>
    /\ cres' = [cres EXCEPT ![p] = Res(None)]
    /\ cexp' = [cexp EXCEPT ![p] = Res(None)]
    /\ cpc' = [cpc EXCEPT ![p] = "release"]
    /\ UNCHANGED <<cacheLock, cop, clocal, ccount>>
    /\ ConcFrame

\* leaving the async with block and returning to the caller
ConcRelease(p) ==
    /\ cpc[p] = "release"
    /\ cacheLock' = Free
    /\ cpc' = [cpc EXCEPT ![p] = "idle"]
    /\ cop' = [cop EXCEPT ![p] = NoOp]
    /\ cres' = [cres EXCEPT ![p] = NoRes]
    /\ cexp' = [cexp EXCEPT ![p] = NoRes]
    /\ UNCHANGED <<clocal, absCache, ccount, cache>>
    /\ ConcFrame

\* ---------------------------------------------------------------- cached
\* Python strings are sequences of characters; a Python value is its type
\* and the text str() gives for it.
MemoCalls == 2
PyInt1 == [type |-> "int", text |-> <<"1">>]
PyStr1 == [type |-> "str", text |-> <<"1">>]
PyStr1c1 == [type |-> "str", text |-> <<"1", ":", "1">>]
MemoArgValues == {PyInt1, PyStr1, PyStr1c1}
\* the argument lists tried: none, one argument, and the pair ("1", "1")
MemoArgs == {<<>>} \cup {<<v>> : v \in MemoArgValues} \cup {<<PyStr1, PyStr1>>}
\* sorted(kwargs.items()): none, or the one named argument x
MemoKwargs == {<<>>, <<<<"x", PyInt1>>>>, <<<<"x", PyStr1>>>>}

\* str(arg)
Str(v) == v.text
\* sep.join(parts)
RECURSIVE Join(_, _)
Join(sep, parts) ==
    IF parts = <<>> THEN <<>>
    ELSE IF Len(parts) = 1 THEN parts[1]
    ELSE parts[1] \o sep \o Join(sep, Tail(parts))

\* the decorator's ttl, key_prefix and the wrapped function's __name__
MemoTTL == 1
KeyPrefix == <<"u">>
FuncName == <<"f">>

\* cache_key = f"{key_prefix}:{func.__name__}:{args_key}:{kwargs_key}"
ArgsKey(args) == Join(<<":">>, [i \in 1..Len(args) |-> Str(args[i])])
KwargsKey(kwargs) ==
    Join(<<":">>, [i \in 1..Len(kwargs) |-> <<kwargs[i][1]>> \o <<"=">> \o Str(kwargs[i][2])])
CacheKey(args, kwargs) ==
    KeyPrefix \o <<":">> \o FuncName \o <<":">> \o ArgsKey(args) \o <<":">> \o KwargsKey(kwargs)

\* the wrapped operation: its result is determined by its arguments and
\* differs between argument lists; for the empty argument list it is None
PyNone == [isNone |-> TRUE, of |-> <<>>]
Func(args, kwargs) ==
    IF args = <<>> /\ kwargs = <<>> THEN PyNone
    ELSE [isNone |-> FALSE, of |-> <<args, kwargs>>]

\* calls and writes count the invocations of func and of cache.set made by
\* the wrapper call; wrote is the entry it stored
NoWrite == [key |-> <<>>, entry |-> Entry(PyNone, NoExpiry)]
NoCall == [args |-> <<>>, kwargs |-> <<>>, key |-> <<>>, result |-> PyNone, t |-> 0,
           calls |-> 0, writes |-> 0, wrote |-> NoWrite]
Done(invoked, result, c) ==
    [args |-> c.args, kwargs |-> c.kwargs, key |-> c.key,
     t |-> c.t, invoked |-> invoked, result |-> result, end |-> now,
     calls |-> c.calls, writes |-> c.writes, wrote |-> c.wrote]

MemoFrame == UNCHANGED <<now, rlState, lastSet, ret, opCount, storeVars, concVars, extVars>>

\* wrapper entry: build the key
MemoCall(args, kwargs) ==
    /\ mpc = "idle"
    /\ Len(memoLog) < MemoCalls
    /\ mcall' = [NoCall EXCEPT !.args = args, !.kwargs = kwargs,
                               !.key = CacheKey(args, kwargs), !.t = now]
    /\ mpc' = "get"
    /\ UNCHANGED <<memoLog, cache>>
    /\ MemoFrame

\* cached_value = await cache.get(cache_key)
\* if cached_value is not None: return cached_value
MemoLookup(key) ==
    IF key \notin DOMAIN cache \/ IsExpired(cache[key]) THEN PyNone ELSE cache[key].value
MemoGet ==
    /\ mpc = "get"
    /\ cache' = GetCache(mcall.key)
    /\ IF MemoLookup(mcall.key) # PyNone
       THEN /\ memoLog' = Append(memoLog, Done(FALSE, MemoLookup(mcall.key), mcall))
            /\ mcall' = NoCall
            /\ mpc' = "idle"
       ELSE /\ mpc' = "func"
            /\ UNCHANGED <<mcall, memoLog>>
    /\ MemoFrame

\* result = await func(*args, **kwargs)
MemoFunc ==
    /\ mpc = "func"
    /\ mcall' = [mcall EXCEPT !.result = Func(mcall.args, mcall.kwargs),
                               !.calls = @ + 1]
    /\ mpc' = "set"
    /\ UNCHANGED <<memoLog, cache>>
    /\ MemoFrame

\* await cache.set(cache_key, result, ttl); return result
MemoSetNoTTL ==
    /\ mpc = "set"
    /\ LET e == Entry(mcall.result, NoExpiry)
       IN  /\ cache' = With(cache, mcall.key, e)
           /\ memoLog' = Append(memoLog,
                    Done(TRUE, mcall.result,
                         [mcall EXCEPT !.writes = @ + 1,
                                       !.wrote = [key |-> mcall.key, entry |-> e]]))
    /\ mcall' = NoCall
    /\ mpc' = "idle"
    /\ MemoFrame
MemoSet ==
    /\ mpc = "set"
    /\ LET e == Entry(mcall.result, ExpiresAt(MemoTTL))
       IN  /\ cache' = With(cache, mcall.key, e)
           /\ memoLog' = Append(memoLog,
                    Done(TRUE, mcall.result,
                         [mcall EXCEPT !.writes = @ + 1,
                                       !.wrote = [key |-> mcall.key, entry |-> e]]))
    /\ mcall' = NoCall
    /\ mpc' = "idle"
    /\ MemoFrame

\* ------------------------------------------------ cached, concurrent callers
\* Several coroutines call the same cached function; each await in the
\* wrapper (cache.get, func, cache.set) is a point where another may run.
WrapperCalls == 3
RaceArgs == {<<PyInt1>>, <<PyStr1c1>>}
\* what the operation returns may differ from one invocation to the next
RaceFunc(args, n) == [isNone |-> FALSE, of |-> <<args, n>>]
NoCaller == [pc |-> "idle", key |-> <<>>, result |-> PyNone]

RaceFrame ==
    UNCHANGED <<now, rlState, lastSet, ret, opCount, storeVars, concVars, memoVars,
                appVars, authVars, geoVars>>

WCall(p, args) ==
    /\ wst[p].pc = "idle"
    /\ wstarted < WrapperCalls
    /\ wst' = [wst EXCEPT ![p] = [NoCaller EXCEPT !.pc = "get", !.key = CacheKey(args, <<>>)]]
    /\ wstarted' = wstarted + 1
    /\ UNCHANGED <<wcalls, wwrites, cache>>
    /\ RaceFrame

WGet(p) ==
    /\ wst[p].pc = "get"
    /\ cache' = GetCache(wst[p].key)
    /\ wst' = [wst EXCEPT ![p] =
                IF MemoLookup(wst[p].key) # PyNone THEN NoCaller
                ELSE [wst[p] EXCEPT !.pc = "func"]]
    /\ UNCHANGED <<wstarted, wcalls, wwrites>>
    /\ RaceFrame

WFunc(p) ==
    /\ wst[p].pc = "func"
    /\ wcalls' = wcalls + 1
    /\ wst' = [wst EXCEPT ![p] = [wst[p] EXCEPT !.pc = "set",
                                               !.result = RaceFunc(wst[p].key, wcalls')]]
    /\ UNCHANGED <<wstarted, wwrites, cache>>
    /\ RaceFrame

WSetIfAbsent(p) ==
    /\ wst[p].pc = "set"
    /\ cache' = IF wst[p].key \in DOMAIN cache THEN cache
                ELSE With(cache, wst[p].key, Entry(wst[p].result, ExpiresAt(MemoTTL)))
    /\ wwrites' = Append(wwrites, [by |-> p, key |-> wst[p].key, result |-> wst[p].result])
    /\ wst' = [wst EXCEPT ![p] = NoCaller]
    /\ UNCHANGED <<wstarted, wcalls>>
    /\ RaceFrame
WSet(p) ==
    /\ wst[p].pc = "set"
    /\ cache' = With(cache, wst[p].key, Entry(wst[p].result, ExpiresAt(MemoTTL)))
    /\ wwrites' = Append(wwrites, [by |-> p, key |-> wst[p].key, result |-> wst[p].result])
    /\ wst' = [wst EXCEPT ![p] = NoCaller]
    /\ UNCHANGED <<wstarted, wcalls>>
    /\ RaceFrame

\* ------------------------------------------- startup binding and requests
\* The lifespan manager binds the cache and the rate limiter, then requests
\* pass through the rate-limit dependency or call a cached function, one
\* request at a time, while the shared store may refuse or stop answering.
AppRequests == 3
AppKey == "k1"

\* str() of a non-negative int
Digits == <<"0", "1", "2", "3", "4", "5", "6", "7", "8", "9">>
RECURSIVE IntStr(_)
IntStr(n) ==
    IF n < 10 THEN <<Digits[n + 1]>>
    ELSE IntStr(n \div 10) \o <<Digits[(n % 10) + 1]>>

NoHeaders == [limit |-> <<>>, remaining |-> <<>>, reset |-> <<>>, retryAfter |-> <<>>]
\* the headers of the HTTPException raised by rate_limit_dependency
Headers429(lim, win) ==
    [limit |-> IntStr(lim), remaining |-> <<"0">>,
     reset |-> IntStr(win), retryAfter |-> IntStr(win)]

\* added: the reply of ZADD in results, whether the member was new
NoReq == [kind |-> "none", pc |-> "idle", tnow |-> 0, added |-> FALSE,
          limited |-> FALSE, remaining |-> 0, status |-> 0,
          headers |-> NoHeaders, result |-> None]
\* an exception nothing catches: the locals are lost, the caller gets an error
Failed(r) == [r EXCEPT !.status = 500, !.result = None, !.pc = "respond"]

\* get_cache() / get_rate_limiter(): an unset global becomes the local variant
Eff(b) == IF b = "unset" THEN "local" ELSE b

\* request.state.rate_limit_*; if is_limited: raise HTTPException(429, ...)
DepDecisionRejectAtZero(r, limited, remaining) ==
    [r EXCEPT !.limited = limited, !.remaining = remaining,
              !.status = IF remaining = 0 THEN 429 ELSE 0,
              !.headers = IF remaining = 0 THEN Headers429(limit, window) ELSE NoHeaders,
              !.pc = IF remaining = 0 THEN "respond" ELSE "handler"]
DepDecision(r, limited, remaining) ==
    [r EXCEPT !.limited = limited, !.remaining = remaining,
              !.status = IF limited THEN 429 ELSE 0,
              !.headers = IF limited THEN Headers429(limit, window) ELSE NoHeaders,
              !.pc = IF limited THEN "respond" ELSE "handler"]

StoreStates == {"up", "down", "hung"}

AppFrame ==
    UNCHANGED <<now, limit, window, lock, pc, arg, tnow, cnt, log, lastSet, ret,
                opCount, scan, concVars, memoVars, raceVars, authVars, geoVars>>

\* await init_db(); a failure is logged and re-raised
StartInitDb ==
    /\ spc = "db"
    /\ spc' \in {"from_url", "aborted"}
    /\ UNCHANGED <<backend, cacheBackend, requests, zset, expireAt, cache,
                   store, enabled, probe, storeState, rq, handled, reqCount,
                   outLog>>
    /\ AppFrame

\* import redis.asyncio; redis.from_url(...): the client, or an exception
StartFromUrl ==
    /\ spc = "from_url"
    /\ \/ spc' = "ping" /\ UNCHANGED probe
       \/ spc' = "running" /\ probe' = "no_client"
    /\ UNCHANGED <<backend, cacheBackend, requests, zset, expireAt, cache,
                   store, enabled, storeState, rq, handled, reqCount, outLog>>
    /\ AppFrame

\* await redis_client.ping() answered
StartPing ==
    /\ spc = "ping"
    /\ storeState = "up"
    /\ spc' = "bind_cache"
    /\ probe' = "ok"
    /\ UNCHANGED <<backend, cacheBackend, requests, zset, expireAt, cache,
                   store, enabled, storeState, rq, handled, reqCount, outLog>>
    /\ AppFrame

\* await redis_client.ping() raised: except Exception, app.state.redis = None
StartPingFail ==
    /\ spc = "ping"
    /\ storeState = "down"
    /\ spc' = "running"
    /\ probe' = "failed"
    /\ UNCHANGED <<backend, cacheBackend, requests, zset, expireAt, cache,
                   store, enabled, storeState, rq, handled, reqCount, outLog>>
    /\ AppFrame

\* set_redis_cache(redis_client)
StartBindCache ==
    /\ spc = "bind_cache"
    /\ cacheBackend' = "redis"
    /\ spc' = "bind_limiter"
    /\ UNCHANGED <<backend, requests, zset, expireAt, cache, store, enabled,
                   probe, storeState, rq, handled, reqCount, outLog>>
    /\ AppFrame

\* set_redis_rate_limiter(redis_client); app.state.redis = redis_client; yield
StartBindLimiterSkip ==
    /\ spc = "bind_limiter"
    /\ spc' = "running"
    /\ UNCHANGED <<backend, cacheBackend, requests, zset, expireAt, cache,
                   store, enabled, probe, storeState, rq, handled, reqCount,
                   outLog>>
    /\ AppFrame

StartBindLimiter ==
    /\ spc = "bind_limiter"
    /\ backend' = "redis"
    /\ spc' = "running"
    /\ UNCHANGED <<cacheBackend, requests, zset, expireAt, cache, store,
                   enabled, probe, storeState, rq, handled, reqCount, outLog>>
    /\ AppFrame

\* the shared store starts refusing, stops answering, or recovers
StoreChange(s) ==
    /\ s # storeState
    /\ storeState' = s
    /\ UNCHANGED <<backend, cacheBackend, requests, zset, expireAt, cache,
                   store, enabled, spc, probe, rq, handled, reqCount, outLog>>
    /\ AppFrame

\* rate_limit_dependency: the enabled test, get_rate_limiter(), and the
\* start of is_rate_limited (now = time.time())
DepEnterIgnoreFlag ==
    /\ spc = "running"
    /\ rq.pc = "idle"
    /\ reqCount < AppRequests
    /\ backend' = Eff(backend)
    /\ rq' = [NoReq EXCEPT !.kind = "dep", !.tnow = now,
                         !.pc = IF Eff(backend) = "local" THEN "check" ELSE "pipeline"]
    /\ reqCount' = reqCount + 1
    /\ UNCHANGED <<cacheBackend, requests, zset, expireAt, cache, store,
                   enabled, spc, probe, storeState, handled, outLog>>
    /\ AppFrame

DepEnter ==
    /\ spc = "running"
    /\ rq.pc = "idle"
    /\ reqCount < AppRequests
    /\ backend' = IF enabled THEN Eff(backend) ELSE backend
    /\ rq' = IF ~enabled
             THEN [NoReq EXCEPT !.kind = "dep", !.pc = "handler"]
             ELSE [NoReq EXCEPT !.kind = "dep", !.tnow = now,
                                !.pc = IF Eff(backend) = "local" THEN "check" ELSE "pipeline"]
    /\ reqCount' = reqCount + 1
    /\ UNCHANGED <<cacheBackend, requests, zset, expireAt, cache, store,
                   enabled, spc, probe, storeState, handled, outLog>>
    /\ AppFrame

\* InMemoryRateLimiter.is_rate_limited, whole call, then the dependency's
\* decision
DepLocalCheck ==
    /\ rq.pc = "check"
    /\ LET pruned == Prune(requests[AppKey], rq.tnow - window)
           count == Len(pruned)
       IN  IF count >= limit
           THEN /\ requests' = [requests EXCEPT ![AppKey] = pruned]
                /\ rq' = DepDecision(rq, TRUE, 0)
           ELSE /\ requests' = [requests EXCEPT ![AppKey] = Append(pruned, rq.tnow)]
                /\ rq' = DepDecision(rq, FALSE, Remaining(limit, count))
    /\ UNCHANGED <<backend, cacheBackend, zset, expireAt, cache, store,
                   enabled, spc, probe, storeState, handled, reqCount,
                   outLog>>
    /\ AppFrame

\* RedisRateLimiter.is_rate_limited: await pipe.execute() answered
DepPipeline ==
    /\ rq.pc = "pipeline"
    /\ storeState = "up"
    /\ LET windowStart == rq.tnow - window
           kept == {m \in Live(AppKey) : ~(0 <= m /\ m <= windowStart)}
           count == Cardinality(kept)
       IN  /\ zset' = [zset EXCEPT ![AppKey] = kept \cup {rq.tnow}]
           /\ expireAt' = [expireAt EXCEPT ![AppKey] = now + window]
           /\ rq' = IF count >= limit
                     THEN [rq EXCEPT !.pc = "zrem", !.added = rq.tnow \notin kept]
                     ELSE DepDecision([rq EXCEPT !.added = rq.tnow \notin kept],
                                      FALSE, Remaining(limit, count))
    /\ UNCHANGED <<backend, cacheBackend, requests, cache, store, enabled,
                   spc, probe, storeState, handled, reqCount, outLog>>
    /\ AppFrame

\* await pipe.execute() raised: nothing catches it
DepPipelineFailback ==
    /\ rq.pc = "pipeline"
    /\ storeState = "down"
    /\ rq' = Failed(rq)
    /\ backend' = "local"
    /\ UNCHANGED <<cacheBackend, requests, zset, expireAt, cache, store,
                   enabled, spc, probe, storeState, handled, reqCount,
                   outLog>>
    /\ AppFrame

DepPipelineFail ==
    /\ rq.pc = "pipeline"
    /\ storeState = "down"
    /\ rq' = Failed(rq)
    /\ UNCHANGED <<backend, cacheBackend, requests, zset, expireAt, cache,
                   store, enabled, spc, probe, storeState, handled, reqCount,
                   outLog>>
    /\ AppFrame

\* await self._redis.zrem(..., str(now)); return True, 0
DepZrem ==
    /\ rq.pc = "zrem"
    /\ storeState = "up"
    /\ LET left == Live(AppKey) \ {rq.tnow}
       IN  /\ zset' = [zset EXCEPT ![AppKey] = left]
           /\ expireAt' = [expireAt EXCEPT ![AppKey] = IF left = {} THEN NoExpiry ELSE @]
    /\ rq' = DepDecision(rq, TRUE, 0)
    /\ UNCHANGED <<backend, cacheBackend, requests, cache, store, enabled,
                   spc, probe, storeState, handled, reqCount, outLog>>
    /\ AppFrame

\* await self._redis.zrem(...) raised
DepZremFail ==
    /\ rq.pc = "zrem"
    /\ storeState = "down"
    /\ rq' = Failed(rq)
    /\ UNCHANGED <<backend, cacheBackend, requests, zset, expireAt, cache,
                   store, enabled, spc, probe, storeState, handled, reqCount,
                   outLog>>
    /\ AppFrame

\* the dependency returned: the route's business logic runs
DepHandler ==
    /\ rq.pc = "handler"
    /\ handled' = handled + 1
    /\ rq' = [rq EXCEPT !.status = 200, !.pc = "respond"]
    /\ UNCHANGED <<backend, cacheBackend, requests, zset, expireAt, cache,
                   store, enabled, spc, probe, storeState, reqCount, outLog>>
    /\ AppFrame

\* a cached function is called: cache = get_cache()
AppMemoCall ==
    /\ spc = "running"
    /\ rq.pc = "idle"
    /\ reqCount < AppRequests
    /\ cacheBackend' = Eff(cacheBackend)
    /\ rq' = [NoReq EXCEPT !.kind = "memo", !.pc = "lookup"]
    /\ reqCount' = reqCount + 1
    /\ UNCHANGED <<backend, requests, zset, expireAt, cache, store, enabled,
                   spc, probe, storeState, handled, outLog>>
    /\ AppFrame

\* cached_value = await cache.get(cache_key) answered
AppMemoLookup ==
    /\ rq.pc = "lookup"
    /\ cacheBackend = "local" \/ storeState = "up"
    /\ LET v == IF cacheBackend = "local" THEN GetValue(AppKey) ELSE RedisGetValue(AppKey)
       IN  /\ cache' = IF cacheBackend = "local" THEN GetCache(AppKey) ELSE cache
           /\ rq' = IF v # None
                     THEN [rq EXCEPT !.status = 200, !.result = v, !.pc = "respond"]
                     ELSE [rq EXCEPT !.pc = "func"]
    /\ UNCHANGED <<backend, cacheBackend, requests, zset, expireAt, store,
                   enabled, spc, probe, storeState, handled, reqCount,
                   outLog>>
    /\ AppFrame

\* await cache.get(cache_key) raised: nothing catches it
AppMemoLookupFailAsMiss ==
    /\ rq.pc = "lookup"
    /\ cacheBackend = "redis"
    /\ storeState = "down"
    /\ rq' = [rq EXCEPT !.pc = "func"]
    /\ UNCHANGED <<backend, cacheBackend, requests, zset, expireAt, cache,
                   store, enabled, spc, probe, storeState, handled, reqCount,
                   outLog>>
    /\ AppFrame

AppMemoLookupFail ==
    /\ rq.pc = "lookup"
    /\ cacheBackend = "redis"
    /\ storeState = "down"
    /\ rq' = Failed(rq)
    /\ UNCHANGED <<backend, cacheBackend, requests, zset, expireAt, cache,
                   store, enabled, spc, probe, storeState, handled, reqCount,
                   outLog>>
    /\ AppFrame

\* result = await func(*args, **kwargs)
AppMemoFunc ==
    /\ rq.pc = "func"
    /\ rq' = [rq EXCEPT !.result = "a", !.pc = "store"]
    /\ UNCHANGED <<backend, cacheBackend, requests, zset, expireAt, cache,
                   store, enabled, spc, probe, storeState, handled, reqCount,
                   outLog>>
    /\ AppFrame

\* await cache.set(cache_key, result, ttl) answered; return result
AppMemoStore ==
    /\ rq.pc = "store"
    /\ cacheBackend = "local" \/ storeState = "up"
    /\ IF cacheBackend = "local"
       THEN /\ cache' = With(cache, AppKey, Entry(rq.result, ExpiresAt(MemoTTL)))
            /\ UNCHANGED store
       ELSE /\ store' = With(store, MakeKey(AppKey),
                             StoredText(Serialize(rq.result), RedisExpireAt(MemoTTL)))
            /\ UNCHANGED cache
    /\ rq' = [rq EXCEPT !.status = 200, !.pc = "respond"]
    /\ UNCHANGED <<backend, cacheBackend, requests, zset, expireAt, enabled,
                   spc, probe, storeState, handled, reqCount, outLog>>
    /\ AppFrame

\* await cache.set(cache_key, result, ttl) raised
AppMemoStoreFail ==
    /\ rq.pc = "store"
    /\ cacheBackend = "redis"
    /\ storeState = "down"
    /\ rq' = Failed(rq)
    /\ UNCHANGED <<backend, cacheBackend, requests, zset, expireAt, cache,
                   store, enabled, spc, probe, storeState, handled, reqCount,
                   outLog>>
    /\ AppFrame

\* the response (or the error) reaches the client
AppRespond ==
    /\ rq.pc = "respond"
    /\ outLog' = Append(outLog, [kind |-> rq.kind, status |-> rq.status,
                                limited |-> rq.limited, headers |-> rq.headers,
                                result |-> rq.result])
    /\ rq' = NoReq
    /\ UNCHANGED <<backend, cacheBackend, requests, zset, expireAt, cache,
                   store, enabled, spc, probe, storeState, handled, reqCount>>
    /\ AppFrame


\* ---------------------------------------------------------- authentication
\* Users, JWT access and refresh tokens, and the routes that check them.
\* A token is modelled by its payload; the signature makes the issued tokens
\* the only ones that decode.
UserIds == {1, 2}
\* the accounts the administrator of the database makes superusers
Admins == {1}
AuthOps == 5
\* settings.access_token_expire_minutes / refresh_token_expire_days, in ticks
AccessTTL == 1
RefreshTTL == 2
NoUser == 0

\* int() of a string of digits
DigitVal(c) == CHOOSE d \in 0..9 : Digits[d + 1] = c
RECURSIVE StrInt(_)
StrInt(s) ==
    IF Len(s) = 1 THEN DigitVal(s[1])
    ELSE 10 * StrInt(SubSeq(s, 1, Len(s) - 1)) + DigitVal(s[Len(s)])

\* create_access_token / create_refresh_token: sub = str(user.id)
Token(id, type, t) ==
    [sub |-> IntStr(id), type |-> type, iat |-> t,
     exp |-> t + (IF type = "access" THEN AccessTTL ELSE RefreshTTL)]
\* create_token_pair
TokenPair(id) == {Token(id, "access", now), Token(id, "refresh", now)}
NoToken == [sub |-> <<>>, type |-> "none", iat |-> 0, exp |-> 0]

\* decode_token rejects an expired token, verify_token a token of another type
VerifyTokenAnyType(t, type) == now <= t.exp
VerifyToken(t, type) == now <= t.exp /\ t.type = type

\* the addresses and names the requests carry
Emails == {<<"a">>, <<"A">>, <<"b">>}
Names == {"n0", "n1"}

\* str.lower()
LowerChar(c) == IF c = "A" THEN "a" ELSE IF c = "B" THEN "b" ELSE c
Lower(s) == [i \in 1..Len(s) |-> LowerChar(s[i])]

\* a row of the users table; is_active defaults to True, is_superuser to False
User(email, name) ==
    [email |-> email, name |-> name, active |-> TRUE, superuser |-> FALSE]

\* UserService.get_by_email: select ... where email == email.lower()
GetByEmailExact(e) ==
    LET found == {u \in DOMAIN users : users[u].email = e}
    IN  IF found = {} THEN NoUser ELSE CHOOSE u \in found : TRUE
GetByEmail(e) ==
    LET found == {u \in DOMAIN users : users[u].email = Lower(e)}
    IN  IF found = {} THEN NoUser ELSE CHOOSE u \in found : TRUE

\* AuthService.get_current_user: the user's id, or NoUser for None
GetCurrentUserNoActiveCheck(t) ==
    IF ~VerifyToken(t, "access") THEN NoUser
    ELSE LET id == StrInt(t.sub)
         IN  IF id \notin DOMAIN users THEN NoUser ELSE id
GetCurrentUser(t) ==
    IF ~VerifyToken(t, "access") THEN NoUser
    ELSE LET id == StrInt(t.sub)
         IN  IF id \notin DOMAIN users \/ ~users[id].active THEN NoUser ELSE id

\* what a call answered, with what the token and the users table were at
\* that moment: whether the token had not expired, whether its user existed
\* and was active
IsLive(t) ==
    /\ t.sub # <<>>
    /\ StrInt(t.sub) \in DOMAIN users
    /\ users[StrInt(t.sub)].active
AuthResult(op, t, status) ==
    [op |-> op, token |-> t, status |-> status, email |-> <<>>, user |-> NoUser,
     fresh |-> now <= t.exp, live |-> IsLive(t)]

AuthFrame ==
    UNCHANGED <<now, rlState, cacheVars, storeVars, concVars, memoVars, raceVars,
                appVars, geoVars>>

\* POST /auth/register: UserService.create raises ValueError for a known
\* address (400), else stores the row under the next id of the sequence
Register(e, n) ==
    /\ IF GetByEmail(e) # NoUser
         THEN /\ authRes' = [AuthResult("register", NoToken, 400) EXCEPT !.email = e]
              /\ UNCHANGED <<users, nextId>>
         ELSE /\ nextId \in UserIds
              /\ users' = With(users, nextId, User(Lower(e), n))
              /\ nextId' = nextId + 1
              /\ authRes' = [AuthResult("register", NoToken, 201) EXCEPT !.email = e]
    /\ UNCHANGED <<tokens, authCount, rejected>>
    /\ AuthFrame

\* PATCH /users/me: UserService.update sets the fields of UserUpdate
\* (full_name, password) on the current user
UpdateMe(t, n) ==
    /\ t \in tokens
    /\ authCount < AuthOps
    /\ authCount' = authCount + 1
    /\ LET cur == GetCurrentUser(t)
       IN  IF cur = NoUser
           THEN /\ authRes' = AuthResult("update", t, 401)
                /\ UNCHANGED users
           ELSE /\ users' = [users EXCEPT ![cur].name = n]
                /\ authRes' = AuthResult("update", t, 200)
    /\ UNCHANGED <<nextId, tokens, rejected>>
    /\ AuthFrame

\* is_superuser is set outside the API, by whoever administers the database
GrantSuperuser(u) ==
    /\ u \in DOMAIN users
    /\ ~users[u].superuser
    /\ users' = [users EXCEPT ![u].superuser = TRUE]
    /\ authRes' = AuthResult("grant", NoToken, 0)
    /\ UNCHANGED <<nextId, tokens, authCount, rejected>>
    /\ AuthFrame

\* POST /auth/login: UserService.authenticate, then the token pair
Login(u, passwordOk) ==
    /\ authCount < AuthOps
    /\ authCount' = authCount + 1
    /\ IF u \in DOMAIN users /\ passwordOk /\ users[u].active
         THEN /\ tokens' = tokens \cup TokenPair(u)
              /\ authRes' = AuthResult("login", Token(u, "access", now), 200)
         ELSE /\ authRes' = AuthResult("login", NoToken, 401)
              /\ UNCHANGED tokens
    /\ UNCHANGED <<users, nextId, rejected>>
    /\ AuthFrame

\* a route behind get_current_user, such as GET /users/me
AuthRequest(t) ==
    /\ t \in tokens
    /\ LET status == IF GetCurrentUser(t) # NoUser THEN 200 ELSE 401
       IN  /\ authRes' = AuthResult("request", t, status)
           /\ rejected' = IF status = 401 /\ VerifyToken(t, "access")
                           THEN rejected \cup {t} ELSE rejected
    /\ UNCHANGED <<users, nextId, tokens, authCount>>
    /\ AuthFrame

\* POST /auth/refresh: AuthService.refresh_tokens
Refresh(t) ==
    /\ t \in tokens
    /\ authCount < AuthOps
    /\ authCount' = authCount + 1
    /\ LET id == StrInt(t.sub)
       IN  IF VerifyToken(t, "refresh") /\ id \in DOMAIN users /\ users[id].active
           THEN /\ tokens' = tokens \cup TokenPair(id)
                /\ authRes' = AuthResult("refresh", t, 200)
           ELSE /\ authRes' = AuthResult("refresh", t, 401)
                /\ UNCHANGED tokens
    /\ UNCHANGED <<users, nextId, rejected>>
    /\ AuthFrame

\* DELETE /users/me: UserService.delete removes the row
DeleteMe(t) ==
    /\ t \in tokens
    /\ authCount < AuthOps
    /\ authCount' = authCount + 1
    /\ LET cur == GetCurrentUser(t)
       IN  IF cur = NoUser
           THEN /\ authRes' = AuthResult("delete", t, 401)
                /\ UNCHANGED users
           ELSE /\ users' = Without(users, {cur})
                /\ authRes' = AuthResult("delete", t, 204)
    /\ UNCHANGED <<nextId, tokens, rejected>>
    /\ AuthFrame

\* PATCH /users/{user_id}/activate and /deactivate, behind
\* get_current_superuser
SetActiveNoSelfCheck(t, u, active) ==
    /\ t \in tokens
    /\ authCount < AuthOps
    /\ authCount' = authCount + 1
    /\ LET cur == GetCurrentUser(t)
           status == IF cur = NoUser THEN 401
                     ELSE IF ~users[cur].superuser THEN 403
                     ELSE IF u \notin DOMAIN users THEN 404
                     ELSE 200
       IN  /\ authRes' = [AuthResult(IF active THEN "activate" ELSE "deactivate", t, status)
                            EXCEPT !.user = u]
           /\ users' = IF status = 200 THEN [users EXCEPT ![u].active = active] ELSE users
    /\ UNCHANGED <<nextId, tokens, rejected>>
    /\ AuthFrame
SetActive(t, u, active) ==
    /\ t \in tokens
    /\ authCount < AuthOps
    /\ authCount' = authCount + 1
    /\ LET cur == GetCurrentUser(t)
           status == IF cur = NoUser THEN 401
                     ELSE IF ~users[cur].superuser THEN 403
                     ELSE IF u \notin DOMAIN users THEN 404
                     ELSE IF ~active /\ u = cur THEN 400
                     ELSE 200
       IN  /\ authRes' = [AuthResult(IF active THEN "activate" ELSE "deactivate", t, status)
                            EXCEPT !.user = u]
           /\ users' = IF status = 200 THEN [users EXCEPT ![u].active = active] ELSE users
    /\ UNCHANGED <<nextId, tokens, rejected>>
    /\ AuthFrame

\* --------------------------------------------------- POST /geocode (LIS)
GeoRequests == 2

\* what the geocoding provider does with the call: a body with status OK,
\* ZERO_RESULTS or another status, no answer within the client's timeout, or
\* a body that is not JSON
GeocoderOutcomes == {"OK", "ZERO_RESULTS", "REQUEST_DENIED", "timeout", "bad_body"}
PlacesOutcomes == {"ok", "http_error", "timeout"}
GeoAddresses == {<<"a", " ", "b">>, <<" ", "a", " ", " ", "b", " ">>}

NoException == [cls |-> "none", msg |-> "", code |-> ""]
Exception(cls, msg) == [cls |-> cls, msg |-> msg, code |-> ""]
ProviderError(code) == [cls |-> "ProviderError", msg |-> "", code |-> code]

NoGeo ==
    [pc |-> "idle", address |-> <<>>, geocoder |-> "none", place_id |-> FALSE,
     places |-> "none", raised |-> NoException, enrichment |-> FALSE]

\* LISService.normalize: " ".join(address.strip().split())
RECURSIVE Collapse(_)
Collapse(s) ==
    IF s = <<>> THEN <<>>
    ELSE IF Head(s) # " " THEN <<Head(s)>> \o Collapse(Tail(s))
    ELSE IF Tail(s) = <<>> \/ Head(Tail(s)) = " " THEN Collapse(Tail(s))
    ELSE <<" ">> \o Collapse(Tail(s))

Normalize(address) ==
    LET c == Collapse(address)
    IN  IF c # <<>> /\ Head(c) = " " THEN Tail(c) ELSE c

\* GoogleGeocodingAdapter.geocode: what the call raises
AdapterRaises(outcome) ==
    CASE outcome = "OK" -> NoException
      [] outcome = "ZERO_RESULTS" -> Exception("ValueError", "NO_RESULTS")
      [] outcome = "REQUEST_DENIED" -> Exception("RuntimeError", "GEOCODING_ERROR:REQUEST_DENIED")
      [] outcome = "timeout" -> Exception("TimeoutException", "")
      [] outcome = "bad_body" -> Exception("ValueError", "Expecting value")

\* LISService.resolve_location, phase 1: except ValueError / except Exception
ResolveRaises(e) ==
    IF e.cls = "none" THEN NoException
    ELSE IF e.cls = "ValueError" /\ e.msg = "NO_RESULTS"
         THEN Exception("NoResultsError", "")
    ELSE ProviderError("GEOCODING_FAILED")

\* the route's except clauses, in order
RouteAnswer(e) ==
    CASE e.cls = "none" -> [status |-> 200, detail |-> ""]
      [] e.cls = "NoResultsError" -> [status |-> 422, detail |-> "NO_RESULTS"]
      [] e.cls = "ProviderTimeoutError" -> [status |-> 422, detail |-> "TIMEOUT"]
      [] e.cls = "ProviderError" -> [status |-> 422, detail |-> "PROVIDER_ERROR:" \o e.code]

GeoFrame ==
    UNCHANGED <<now, rlState, cacheVars, storeVars, concVars, memoVars, raceVars,
                appVars, authVars>>

\* the request arrives authenticated; resolve_location awaits the geocoder
GeoCall(address) ==
    /\ geo.pc = "idle"
    /\ Len(geoLog) < GeoRequests
    /\ geo' = [NoGeo EXCEPT !.pc = "geocoder", !.address = address]
    /\ UNCHANGED geoLog
    /\ GeoFrame

\* the geocoder call ends
GeocoderReturn(outcome, hasPlaceId) ==
    /\ geo.pc = "geocoder"
    /\ LET e == ResolveRaises(AdapterRaises(outcome))
           place == outcome = "OK" /\ hasPlaceId
       IN  geo' = [geo EXCEPT !.geocoder = outcome,
                              !.place_id = place,
                              !.raised = e,
                              !.pc = IF e = NoException /\ place
                                     THEN "places" ELSE "route"]
    /\ UNCHANGED geoLog
    /\ GeoFrame

\* the places call ends; except Exception: enrichment = None
PlacesReturn(outcome) ==
    /\ geo.pc = "places"
    /\ geo' = [geo EXCEPT !.places = outcome,
                          !.enrichment = (outcome = "ok"),
                          !.pc = "route"]
    /\ UNCHANGED geoLog
    /\ GeoFrame

\* the route returns the response or raises the HTTPException
GeoRespond ==
    /\ geo.pc = "route"
    /\ LET a == RouteAnswer(geo.raised)
       IN  geoLog' = Append(geoLog,
                [geocoder |-> geo.geocoder, place_id |-> geo.place_id,
                 places |-> geo.places, status |-> a.status, detail |-> a.detail,
                 input_address |-> geo.address,
                 normalized_address |-> IF a.status = 200
                                        THEN Normalize(geo.address) ELSE <<>>,
                 enrichment |-> geo.enrichment])
    /\ geo' = NoGeo
    /\ GeoFrame

\* ------------------------------------------------------------------- clock
Tick ==
    /\ now < MaxTime
    /\ now' = now + 1
    /\ UNCHANGED <<backend, limit, window, requests, lock, zset, expireAt,
                   pc, arg, tnow, cnt, log>>
    /\ UNCHANGED cacheVars
    /\ UNCHANGED restVars

\* ---------------------------------------------------------- specifications
CacheIdle ==
    /\ cache = <<>>
    /\ lastSet = [k \in Keys |-> NeverSet]
    /\ ret = Ret("none", "k1", None, FALSE, 0, 0)
    /\ opCount = 0

\* _cache is the InMemoryCache; Redis holds only other components' keys
ConcIdle ==
    /\ cacheLock = Free
    /\ cpc = [p \in Procs |-> "idle"]
    /\ cop = [p \in Procs |-> NoOp]
    /\ clocal = [p \in Procs |-> NoEntry]
    /\ cres = [p \in Procs |-> NoRes]
    /\ cexp = [p \in Procs |-> NoRes]
    /\ absCache = <<>>
    /\ ccount = 0

MemoIdle ==
    /\ mpc = "idle"
    /\ mcall = NoCall
    /\ memoLog = <<>>

RaceIdle ==
    /\ wst = [p \in Procs |-> NoCaller]
    /\ wstarted = 0
    /\ wcalls = 0
    /\ wwrites = <<>>

\* the application has started and no request is in progress
AppIdle ==
    /\ enabled = TRUE
    /\ spc = "running"
    /\ probe = "pending"
    /\ storeState = "up"
    /\ rq = NoReq
    /\ handled = 0
    /\ reqCount = 0
    /\ outLog = <<>>

\* an empty users table and no token issued
AuthIdle ==
    /\ users = <<>>
    /\ nextId = 1
    /\ tokens = {}
    /\ authRes = AuthResult("none", NoToken, 0)
    /\ authCount = 0
    /\ rejected = {}

GeoIdle ==
    /\ geo = NoGeo
    /\ geoLog = <<>>

ExtIdle == RaceIdle /\ AppIdle /\ AuthIdle /\ GeoIdle

RestIdle ==
    /\ cacheBackend = "local"
    /\ store = ForeignStore
    /\ scan = ScanIdle
    /\ ConcIdle
    /\ MemoIdle
    /\ ExtIdle

\* InMemoryRateLimiter.__init__ and an empty store
RLIdle ==
    /\ requests = [k \in Keys |-> <<>>]
    /\ lock = Free
    /\ zset = [k \in Keys |-> {}]
    /\ expireAt = [k \in Keys |-> NoExpiry]
    /\ pc = [p \in Procs |-> "idle"]
    /\ arg = [p \in Procs |-> "k1"]
    /\ tnow = [p \in Procs |-> 0]
    /\ cnt = [p \in Procs |-> 0]
    /\ log = [k \in Keys |-> <<>>]

\* Spec: concurrent requests against the bound rate limiter
Init ==
    /\ now = 0
    /\ backend \in {"local", "redis"}
    /\ limit \in Limits
    /\ window \in Windows
    /\ RLIdle
    /\ CacheIdle
    /\ RestIdle

Next ==
    \/ \E p \in Procs, k \in Keys : LocalCall(p, k)
    \/ \E p \in Procs : LocalAcquire(p)
    \/ \E p \in Procs : LocalPrune(p)
    \/ \E p \in Procs : LocalDecide(p)
    \/ \E p \in Procs, k \in Keys : LocalReset(p, k)
    \/ \E p \in Procs, k \in Keys : RedisCall(p, k)
    \/ \E p \in Procs : RedisPipeline(p)
    \/ \E p \in Procs : RedisZrem(p)
    \/ \E p \in Procs, k \in Keys : RedisReset(p, k)
    \/ Tick

Spec == Init /\ [][Next]_vars

\* RaceSpec: callers racing on one key of the Redis limiter with limit = 1
RaceCalls == 5

RaceCall(p) == TotalCalls + InFlight < RaceCalls /\ RedisEnter(p, "k1")

RaceInit ==
    /\ now = 0
    /\ backend = "redis"
    /\ limit = 1
    /\ window \in Windows
    /\ RLIdle
    /\ CacheIdle
    /\ RestIdle

RaceNext ==
    \/ \E p \in Procs : RaceCall(p)
    \/ \E p \in Procs : RedisPipeline(p)
    \/ \E p \in Procs : RedisZrem(p)
    \/ Tick

RaceSpec == RaceInit /\ [][RaceNext]_vars

\* ScenarioSpec: one call after the other on one key, limit = 3 and
\* window_seconds = 60, at the instants of ScenarioTimes
ScenarioCalls == 5
ScenarioTimes == {0, 1, 2, 3, 60, 61, 62}

ScenarioCall(p) ==
    /\ TotalCalls + InFlight < ScenarioCalls
    /\ \A q \in Procs : pc[q] = "idle"
    /\ LocalEnter(p, "k1") \/ RedisEnter(p, "k1")

\* the clock moves between calls: each call of the scenario is made at one
\* instant
Jump ==
    /\ \A q \in Procs : pc[q] = "idle"
    /\ \E t \in ScenarioTimes : t > now /\ now' = t
    /\ UNCHANGED <<rlState, cacheVars>>
    /\ UNCHANGED restVars

ScenarioInit ==
    /\ now = 0
    /\ backend \in {"local", "redis"}
    /\ limit = 3
    /\ window = 60
    /\ RLIdle
    /\ CacheIdle
    /\ RestIdle

ScenarioNext ==
    \/ \E p \in Procs : ScenarioCall(p)
    \/ \E p \in Procs : LocalAcquire(p)
    \/ \E p \in Procs : LocalPrune(p)
    \/ \E p \in Procs : LocalDecide(p)
    \/ \E p \in Procs : RedisPipeline(p)
    \/ \E p \in Procs : RedisZrem(p)
    \/ Jump

ScenarioSpec == ScenarioInit /\ [][ScenarioNext]_vars

\* CleanupSpec: the in-memory limiter with the periodic sweep running
\* between and during checks, over more than an hour
CleanupCalls == 3
CleanupTimes == {0, 1, 3540, 3600, 3601, 3661}
CleanupWindows == {60, 3600}

CleanupCall(p, k) == TotalCalls + InFlight < CleanupCalls /\ LocalEnter(p, k)

CleanupJump ==
    /\ \E t \in CleanupTimes : t > now /\ now' = t
    /\ UNCHANGED <<rlState, cacheVars>>
    /\ UNCHANGED restVars

CleanupInit ==
    /\ now = 0
    /\ backend = "local"
    /\ limit \in Limits
    /\ window \in CleanupWindows
    /\ RLIdle
    /\ CacheIdle
    /\ RestIdle

CleanupNext ==
    \/ \E p \in Procs, k \in Keys : CleanupCall(p, k)
    \/ \E p \in Procs : LocalAcquire(p)
    \/ \E p \in Procs : LocalPrune(p)
    \/ \E p \in Procs : LocalDecide(p)
    \/ LocalCleanup
    \/ CleanupJump

CleanupSpec == CleanupInit /\ [][CleanupNext]_vars

\* ClientSpec: clients on routes, each request limited under its default key
ClientCalls == 3

ClientRequest(p, c) ==
    /\ TotalCalls + InFlight < ClientCalls
    /\ \/ LocalEnter(p, DefaultKey(c[1], c[2]))
       \/ RedisEnter(p, DefaultKey(c[1], c[2]))

ClientReset(p, c) ==
    /\ TotalCalls + InFlight < ClientCalls
    /\ \/ LocalReset(p, DefaultKey(c[1], c[2]))
       \/ RedisReset(p, DefaultKey(c[1], c[2]))

ClientInit ==
    /\ now = 0
    /\ backend \in {"local", "redis"}
    /\ limit \in Limits
    /\ window \in Windows
    /\ requests = [k \in ClientKeys |-> <<>>]
    /\ lock = Free
    /\ zset = [k \in ClientKeys |-> {}]
    /\ expireAt = [k \in ClientKeys |-> NoExpiry]
    /\ pc = [p \in Procs |-> "idle"]
    /\ arg = [p \in Procs |-> DefaultKey(NoClient, <<"/">>)]
    /\ tnow = [p \in Procs |-> 0]
    /\ cnt = [p \in Procs |-> 0]
    /\ log = [k \in ClientKeys |-> <<>>]
    /\ CacheIdle
    /\ RestIdle

ClientNext ==
    \/ \E p \in Procs, c \in Callers : ClientRequest(p, c)
    \/ \E p \in Procs, c \in Callers : ClientReset(p, c)
    \/ \E p \in Procs : LocalAcquire(p)
    \/ \E p \in Procs : LocalPrune(p)
    \/ \E p \in Procs : LocalDecide(p)
    \/ \E p \in Procs : RedisPipeline(p)
    \/ \E p \in Procs : RedisZrem(p)

ClientSpec == ClientInit /\ [][ClientNext]_vars

\* GeoSpec: geocode requests, one at a time
GeoInit ==
    /\ now = 0
    /\ backend = "local"
    /\ limit \in {1}
    /\ window \in Windows
    /\ RLIdle
    /\ CacheIdle
    /\ RestIdle

GeoNext ==
    \/ \E a \in GeoAddresses : GeoCall(a)
    \/ \E o \in GeocoderOutcomes, hasPlaceId \in BOOLEAN : GeocoderReturn(o, hasPlaceId)
    \/ \E o \in PlacesOutcomes : PlacesReturn(o)
    \/ GeoRespond

GeoSpec == GeoInit /\ [][GeoNext]_vars

\* CacheSpec: the in-memory cache on its own
CacheInit ==
    /\ now = 0
    /\ backend = "local"
    /\ limit \in Limits
    /\ window \in Windows
    /\ RLIdle
    /\ CacheIdle
    /\ RestIdle

CacheNext ==
    \/ \E k \in Keys : CacheGet(k)
    \/ \E k \in Keys, v \in Values, ttl \in TTLs : CacheSet(k, v, ttl)
    \/ \E k \in Keys : CacheDelete(k)
    \/ \E k \in Keys : CacheExists(k)
    \/ CacheClear
    \/ CacheCleanupExpired
    \/ Tick

CacheSpec == CacheInit /\ [][CacheNext]_vars

\* get_cache() / set_redis_cache(): one of the two variants serves the calls
CachesInit ==
    /\ now = 0
    /\ backend = "local"
    /\ limit \in {1}
    /\ window \in Windows
    /\ RLIdle
    /\ CacheIdle
    /\ cacheBackend \in {"local", "redis"}
    /\ store = ForeignStore
    /\ scan = ScanIdle
    /\ ConcIdle
    /\ MemoIdle
    /\ ExtIdle

LocalCacheGet(k) == cacheBackend = "local" /\ opCount < CachesOps /\ CacheGet(k)
LocalCacheSet(k, v, ttl) == cacheBackend = "local" /\ opCount < CachesOps /\ CacheSet(k, v, ttl)
LocalCacheDelete(k) == cacheBackend = "local" /\ opCount < CachesOps /\ CacheDelete(k)
LocalCacheExists(k) == cacheBackend = "local" /\ opCount < CachesOps /\ CacheExists(k)
LocalCacheClear == cacheBackend = "local" /\ opCount < CachesOps /\ CacheClear
CachesTick == now < CachesMaxTime /\ Tick

CachesNext ==
    \/ \E k \in Keys : LocalCacheGet(k)
    \/ \E k \in Keys, v \in CachesValues, ttl \in CachesTTLs : LocalCacheSet(k, v, ttl)
    \/ \E k \in Keys : LocalCacheDelete(k)
    \/ \E k \in Keys : LocalCacheExists(k)
    \/ LocalCacheClear
    \/ \E k \in Keys : RedisCacheGet(k)
    \/ \E k \in Keys, v \in CachesValues, ttl \in CachesTTLs : RedisCacheSet(k, v, ttl)
    \/ \E k \in Keys : RedisCacheDelete(k)
    \/ \E k \in Keys : RedisCacheExists(k)
    \/ RedisCacheClearStart
    \/ RedisCacheClearScan
    \/ RedisCacheClearDelete
    \/ CachesTick

CachesSpec == CachesInit /\ [][CachesNext]_vars

\* concurrent coroutines calling the one InMemoryCache
ConcInit ==
    /\ now = 0
    /\ backend = "local"
    /\ limit \in {1}
    /\ window \in Windows
    /\ RLIdle
    /\ CacheIdle
    /\ cacheBackend = "local"
    /\ store = ForeignStore
    /\ scan = ScanIdle
    /\ ConcIdle
    /\ MemoIdle
    /\ ExtIdle

ConcCall(p) ==
    /\ \/ \E k \in Keys : ConcInvoke(p, "get", k, None, NoTTL)
       \/ \E k \in Keys : ConcInvoke(p, "exists", k, None, NoTTL)
       \/ \E k \in Keys, v \in ConcValues, ttl \in ConcTTLs : ConcInvoke(p, "set", k, v, ttl)
       \/ \E k \in Keys : ConcInvoke(p, "delete", k, None, NoTTL)
       \/ ConcInvoke(p, "clear", "k1", None, NoTTL)

ConcNext ==
    \/ \E p \in Procs : ConcCall(p)
    \/ \E p \in Procs : ConcAcquire(p)
    \/ \E p \in Procs : ConcGetRead(p)
    \/ \E p \in Procs : ConcGetCheck(p)
    \/ \E p \in Procs : ConcSet(p)
    \/ \E p \in Procs : ConcDelete(p)
    \/ \E p \in Procs : ConcClear(p)
    \/ \E p \in Procs : ConcRelease(p)
    \/ Tick

ConcSpec == ConcInit /\ [][ConcNext]_vars

\* sequential calls of one cached function over the local cache
MemoInit ==
    /\ now = 0
    /\ backend = "local"
    /\ limit \in {1}
    /\ window \in Windows
    /\ RLIdle
    /\ CacheIdle
    /\ RestIdle

MemoNext ==
    \/ \E args \in MemoArgs, kwargs \in MemoKwargs : MemoCall(args, kwargs)
    \/ MemoGet
    \/ MemoFunc
    \/ MemoSet
    \/ Tick

MemoSpec == MemoInit /\ [][MemoNext]_vars

\* concurrent callers of one cached function over the local cache
MemoRaceInit == MemoInit

MemoRaceNext ==
    \/ \E p \in Procs, args \in RaceArgs : WCall(p, args)
    \/ \E p \in Procs : WGet(p)
    \/ \E p \in Procs : WFunc(p)
    \/ \E p \in Procs : WSet(p)
    \/ Tick

MemoRaceSpec == MemoRaceInit /\ [][MemoRaceNext]_vars

\* the application from process start: startup binding, then requests
AppInit ==
    /\ now = 0
    /\ backend = "unset"
    /\ cacheBackend = "unset"
    /\ limit \in {1}
    /\ window \in Windows
    /\ RLIdle
    /\ CacheIdle
    /\ store = ForeignStore
    /\ scan = ScanIdle
    /\ ConcIdle
    /\ MemoIdle
    /\ RaceIdle
    /\ AuthIdle
    /\ GeoIdle
    /\ enabled \in BOOLEAN
    /\ spc = "db"
    /\ probe = "pending"
    /\ storeState \in StoreStates
    /\ rq = NoReq
    /\ handled = 0
    /\ reqCount = 0
    /\ outLog = <<>>

\* the steps of the program, as opposed to arrivals and the environment
AppStep ==
    \/ StartInitDb
    \/ StartFromUrl
    \/ StartPing
    \/ StartPingFail
    \/ StartBindCache
    \/ StartBindLimiter
    \/ DepLocalCheck
    \/ DepPipeline
    \/ DepPipelineFail
    \/ DepZrem
    \/ DepZremFail
    \/ DepHandler
    \/ AppMemoLookup
    \/ AppMemoLookupFail
    \/ AppMemoFunc
    \/ AppMemoStore
    \/ AppMemoStoreFail
    \/ AppRespond

AppNext ==
    \/ AppStep
    \/ DepEnter
    \/ AppMemoCall
    \/ \E s \in StoreStates : StoreChange(s)
    \/ Tick

AppSpec == AppInit /\ [][AppNext]_vars

\* the event loop runs every coroutine that can continue, and a call to the
\* store completes once the store answers or refuses: a program step that is
\* possible again and again is eventually taken
AppFairSpec == AppSpec /\ SF_vars(AppStep)

\* users and tokens from an empty database
AuthInit ==
    /\ now = 0
    /\ backend = "local"
    /\ limit \in {1}
    /\ window \in Windows
    /\ RLIdle
    /\ CacheIdle
    /\ cacheBackend = "local"
    /\ store = ForeignStore
    /\ scan = ScanIdle
    /\ ConcIdle
    /\ MemoIdle
    /\ RaceIdle
    /\ AppIdle
    /\ AuthIdle
    /\ GeoIdle

\* each new account registers with an address of its own
NewEmail == IF nextId = 1 THEN <<"a">> ELSE <<"b">>

AuthNext ==
    \/ Register(NewEmail, "n0")
    \/ \E u \in Admins : GrantSuperuser(u)
    \/ \E u \in UserIds, passwordOk \in BOOLEAN : Login(u, passwordOk)
    \/ \E t \in tokens : AuthRequest(t)
    \/ \E t \in tokens : Refresh(t)
    \/ \E t \in tokens : DeleteMe(t)
    \/ \E t \in tokens, u \in UserIds, active \in BOOLEAN : SetActive(t, u, active)
    \/ Tick

AuthSpec == AuthInit /\ [][AuthNext]_vars

\* registration, profile update and deletion with addresses that differ in
\* case only
UserInit == AuthInit

UserNext ==
    \/ \E e \in Emails : Register(e, "n0")
    \/ \E u \in UserIds : Login(u, TRUE)
    \/ \E t \in tokens, n \in Names : UpdateMe(t, n)
    \/ \E t \in tokens : DeleteMe(t)

UserSpec == UserInit /\ [][UserNext]_vars

\* ------------------------------------------------------ history operators
Last(s) == s[Len(s)]
IsAdmitted(e) == e.op = "check" /\ ~e.limited
IsRejected(e) == e.op = "check" /\ e.limited

\* index of the last reset before position j of history L (0: none)
LastResetBefore(L, j) ==
    LET rs == {i \in 1..(j - 1) : L[i].op = "reset"}
    IN  IF rs = {} THEN 0 ELSE CHOOSE i \in rs : \A m \in rs : m <= i

\* the admitted calls before position j whose events are newer than lo
AdmittedBefore(L, j, lo) ==
    {i \in (LastResetBefore(L, j) + 1)..(j - 1) : IsAdmitted(L[i]) /\ L[i].t > lo}

\* admitted requests inside the trailing window of the call at position j
InWindowBefore(L, j) == Cardinality(AdmittedBefore(L, j, L[j].t - window))

\* ------------------------------------------------------------------ claims
Min(a, b) == IF a <= b THEN a ELSE b
AllChecks(L, s, j) == \A i \in s..j : L[i].op = "check"

\* C1: in-memory limiter, one key, limit N and window W: counted from a call
\* that finds the window empty, the n-th call made less than W seconds after
\* it is admitted with remaining N - n for n <= N, and the (N+1)-th is
\* rejected with remaining 0.
C1_FirstNAdmittedThenLimited ==
    backend = "local" =>
        \A k \in Keys :
            LET L == log[k]
            IN  \A s \in 1..Len(L) : \A j \in s..Len(L) :
                    (/\ AllChecks(L, s, j)
                     /\ InWindowBefore(L, s) = 0
                     /\ L[j].t - L[s].t < window)
                    => LET n == j - s + 1
                       IN  /\ n <= limit =>
                                ~L[j].limited /\ L[j].remaining = limit - n
                           /\ n = limit + 1 =>
                                L[j].limited /\ L[j].remaining = 0

C1_Witness ==
    /\ backend = "local"
    /\ limit = 2
    /\ \E k \in Keys :
        /\ Len(log[k]) = 3
        /\ AllChecks(log[k], 1, 3)
        /\ log[k][3].t - log[k][1].t < window
        /\ log[k][1].remaining = 1 /\ log[k][2].remaining = 0
        /\ log[k][3].limited

\* C2: in-memory limiter under any interleaving of callers: the timestamps
\* recorded for a key that are newer than now - window_seconds never number
\* more than limit, and of K callers that arrive on an empty window within
\* one window exactly min(K, limit) are admitted.
C2_AtomicAdmission ==
    backend = "local" =>
        \A k \in Keys :
            /\ Cardinality({i \in DOMAIN requests[k] :
                              requests[k][i] > now - window}) <= limit
            /\ LET L == log[k]
               IN  (/\ Len(L) > 0
                    /\ AllChecks(L, 1, Len(L))
                    /\ Last(L).t - L[1].t < window)
                   => Cardinality({i \in 1..Len(L) : IsAdmitted(L[i])})
                        = Min(Len(L), limit)

C2_Witness ==
    /\ backend = "local"
    /\ \E p \in Procs, q \in Procs :
        /\ pc[p] = "decide" /\ cnt[p] >= limit
        /\ pc[q] = "lock" /\ arg[q] = arg[p]
        /\ Len(log[arg[p]]) = limit
        /\ \A i \in 1..limit : log[arg[p]][i].t = now

\* the timestamps of list s that lie inside the window ending now
InWindow(s) == SelectSeq(s, LAMBDA ts : ts > now - window)

\* C3: in-memory limiter: a call that finds the key at its limit returns
\* (true, 0) and records no event: the clean-up step keeps the key's
\* in-window timestamps and the rejecting step leaves the list as it is.
C3_RejectedRecordsNothing ==
    [][backend = "local" =>
        \A p \in Procs :
            /\ (pc[p] = "prune" /\ pc'[p] = "decide")
               => InWindow(requests'[arg[p]]) = InWindow(requests[arg[p]])
            /\ (pc[p] = "decide" /\ pc'[p] = "idle" /\ Len(requests[arg[p]]) >= limit)
               => /\ IsRejected(Last(log'[arg[p]]))
                  /\ Last(log'[arg[p]]).remaining = 0
                  /\ requests'[arg[p]] = requests[arg[p]]]_vars

C3_Witness ==
    /\ backend = "local"
    /\ \E k \in Keys :
        /\ Len(log[k]) > 0
        /\ IsRejected(Last(log[k]))
        /\ Len(requests[k]) = limit

\* C8: in-memory limiter: once a key has reached its limit, a call made
\* window_seconds or more after the admitted call that reached it, with only
\* rejected calls in between, is admitted.
C8_AdmittedAgainAfterWindow ==
    backend = "local" =>
        \A k \in Keys :
            LET L == log[k]
            IN  \A i \in 1..Len(L) : \A j \in (i + 1)..Len(L) :
                    (/\ IsAdmitted(L[i]) /\ L[i].remaining = 0
                     /\ \A m \in (i + 1)..(j - 1) : IsRejected(L[m])
                     /\ L[j].op = "check"
                     /\ L[j].t - L[i].t >= window)
                    => ~L[j].limited

C8_Witness ==
    /\ backend = "local"
    /\ \E k \in Keys :
        /\ Len(log[k]) >= 3
        /\ IsAdmitted(log[k][1]) /\ log[k][1].remaining = 0
        /\ IsRejected(log[k][2])
        /\ IsAdmitted(log[k][3])
        /\ log[k][3].t = log[k][1].t + window

\* C9: both limiters: the call that follows reset(key) returns
\* (false, limit - 1), and reset(key) changes the window of no other key.
C9_ResetRestoresQuota ==
    /\ [](\A k \in Keys :
            \A j \in 2..Len(log[k]) :
                (log[k][j - 1].op = "reset" /\ log[k][j].op = "check")
                => ~log[k][j].limited /\ log[k][j].remaining = limit - 1)
    /\ [][\A k \in Keys :
            (Len(log'[k]) = Len(log[k]) + 1 /\ Last(log'[k]).op = "reset")
            => \A j \in Keys \ {k} :
                 /\ requests'[j] = requests[j]
                 /\ zset'[j] = zset[j]
                 /\ expireAt'[j] = expireAt[j]]_vars

C9_Witness ==
    \E k \in Keys, j \in Keys :
        /\ j # k
        /\ Len(log[k]) = 3
        /\ IsAdmitted(log[k][1]) /\ log[k][1].remaining = 0
        /\ log[k][2].op = "reset"
        /\ IsAdmitted(log[k][3]) /\ log[k][3].remaining = limit - 1
        /\ log[k][3].t - log[k][1].t < window
        /\ Len(log[j]) > 0 /\ IsAdmitted(log[j][1])
        /\ (Len(requests[j]) > 0 \/ zset[j] # {})

\* members of the key's sorted set that admitted calls recorded since the
\* last reset
AdmittedMembers(k) ==
    LET L == log[k]
    IN  {L[i].t : i \in AdmittedBefore(L, Len(L) + 1, -1)}

\* C4: Redis limiter: when a rejected call returns, its own speculative
\* member is not in the key's sorted set and every in-window member of an
\* admitted call that was in the set is still there.
C4_RejectedCallKeepsAdmittedMembers ==
    [][\A p \in Procs :
        (pc[p] = "zrem" /\ pc'[p] = "idle")
        => /\ tnow[p] \notin zset'[arg[p]]
           /\ \A m \in zset[arg[p]] \cap AdmittedMembers(arg[p]) :
                m > now - window => m \in zset'[arg[p]]]_vars

\* C5: Redis limiter with limit = 1: the admitted calls whose events lie in
\* one window never number more than 1 plus a race margin of one.
C5_AdmittedWithinRaceMargin ==
    (backend = "redis" /\ limit = 1) =>
        LET L == log["k1"]
        IN  \A j \in 1..Len(L) :
                Cardinality({i \in 1..Len(L) :
                               /\ IsAdmitted(L[i])
                               /\ L[i].t > L[j].t - window
                               /\ L[i].t <= L[j].t}) <= limit + 1

\* C6: Redis limiter: a call is rejected only if at least limit admitted
\* requests lie inside its trailing window.
C6_RejectedOnlyAtLimit ==
    backend = "redis" =>
        \A k \in Keys :
            \A j \in 1..Len(log[k]) :
                IsRejected(log[k][j]) => InWindowBefore(log[k], j) >= limit

\* the instants of the scenario and the results of its calls
ScenarioInstants == <<0, 1, 2, 3, 61>>
ScenarioClaimed ==
    <<<<FALSE, 2>>, <<FALSE, 1>>, <<FALSE, 0>>, <<TRUE, 0>>, <<FALSE, 0>>>>
ScenarioObserved ==
    <<<<FALSE, 2>>, <<FALSE, 1>>, <<FALSE, 0>>, <<TRUE, 0>>, <<FALSE, 1>>>>
FollowsScenario(L, n) ==
    /\ n <= Len(L)
    /\ \A i \in 1..n : L[i].op = "check" /\ L[i].t = ScenarioInstants[i]

GetReturned(k) == opCount' = opCount + 1 /\ ret'.op = "get" /\ ret'.key = k
HadTTL(k) == lastSet[k].set /\ lastSet[k].ttl > 0

\* C10 as stated: in-memory cache, ttl > 0: get(k) returns the value of the
\* last set on k while fewer than ttl seconds have elapsed since it, and
\* absent once ttl seconds have elapsed.
C10_ReadableUntilTTLAsClaimed ==
    [][\A k \in Keys :
        (GetReturned(k) /\ HadTTL(k))
        => IF now - lastSet[k].t < lastSet[k].ttl
             THEN ret'.val = lastSet[k].value
             ELSE ret'.val = None]_vars

\* C10 amended: in-memory cache, ttl > 0: get(k) returns the value of the
\* last set on k while no more than ttl seconds have elapsed since it, and
\* absent once more than ttl seconds have elapsed.
C10_ReadableUntilTTLAmended ==
    [][\A k \in Keys :
        (GetReturned(k) /\ HadTTL(k))
        => IF now - lastSet[k].t <= lastSet[k].ttl
             THEN ret'.val = lastSet[k].value
             ELSE ret'.val = None]_vars

C10_Witness ==
    /\ ret.op = "get"
    /\ HadTTL(ret.key)
    /\ lastSet[ret.key].value # None
    /\ ret.t = lastSet[ret.key].t + lastSet[ret.key].ttl
    /\ ret.val = lastSet[ret.key].value

\* C11: in-memory cache: an entry stored by set with the ttl omitted stays
\* in the dict and is returned by get whatever time has elapsed and whatever
\* reads and cleanup_expired sweeps were made, until a delete, a clear or a
\* new set on its key.
C11_NoTTLNeverExpires ==
    /\ [](\A k \in Keys :
            (lastSet[k].set /\ lastSet[k].ttl = NoTTL)
            => /\ k \in DOMAIN cache
               /\ GetValue(k) = lastSet[k].value)
    /\ [][\A k \in Keys :
            (GetReturned(k) /\ lastSet[k].set /\ lastSet[k].ttl = NoTTL)
            => ret'.val = lastSet[k].value]_vars

C11_Witness ==
    /\ ret.op = "cleanup_expired" /\ ret.n > 0
    /\ \E k \in Keys :
        /\ lastSet[k].set /\ lastSet[k].ttl = NoTTL /\ lastSet[k].value = "a"
        /\ now >= lastSet[k].t + 2
        /\ GetValue(k) = "a"

\* a get or an exists of key k has just returned
ReadReturned(k) ==
    opCount' = opCount + 1 /\ ret'.op \in {"get", "exists"} /\ ret'.key = k

\* C16: in-memory cache: a get or an exists on an entry whose expires_at has
\* passed reports absence and deletes the entry in the same step.
C16_LazyExpiryEvicts ==
    [][\A k \in Keys :
        (/\ ReadReturned(k)
         /\ k \in DOMAIN cache
         /\ cache[k].expiresAt # NoExpiry
         /\ now > cache[k].expiresAt)
        => /\ ret'.val = None
           /\ ~ret'.flag
           /\ k \notin DOMAIN cache']_vars

C16_Witness ==
    /\ ret.op = "get"
    /\ ret.val = None
    /\ lastSet[ret.key].set
    /\ lastSet[ret.key].value = "a"
    /\ lastSet[ret.key].ttl > 0
    /\ ret.t > lastSet[ret.key].t + lastSet[ret.key].ttl
    /\ ret.key \notin DOMAIN cache

DeleteReturned(k) ==
    opCount' = opCount + 1 /\ ret'.op = "delete" /\ ret'.key = k
\* the value get(k) / exists(k) would return now, whichever variant serves
GetResult(k) == IF cacheBackend = "local" THEN GetValue(k) ELSE RedisGetValue(k)
ExistsResult(k) ==
    IF cacheBackend = "local" THEN GetValue(k) # None ELSE StoreLive(MakeKey(k))
OtherEntriesKept(k) ==
    /\ Without(cache', {k}) = Without(cache, {k})
    /\ Without(store', {MakeKey(k)}) = Without(store, {MakeKey(k)})

\* C12: in both variants delete(k) removes k's entry and changes no other
\* entry, and the get(k) / exists(k) that follows it reports absence.
C12_DeleteRemoves ==
    [][\A k \in Keys :
        /\ DeleteReturned(k)
           => /\ k \notin DOMAIN cache' /\ MakeKey(k) \notin DOMAIN store'
              /\ OtherEntriesKept(k)
        /\ (ReadReturned(k) /\ ret.op = "delete" /\ ret.key = k)
           => ret'.val = None /\ ~ret'.flag]_vars
C12_Witness ==
    /\ ret.op = "delete" /\ ret.n = 1
    /\ GetResult(ret.key) = None /\ ~ExistsResult(ret.key)
    /\ \E j \in Keys \ {ret.key} : GetResult(j) = "a"

\* C13: at every moment exists(k) is true exactly when get(k) would return
\* a value, in both variants.
C13_ExistsIffGetReturnsValue ==
    \A k \in Keys : ExistsResult(k) <=> (GetResult(k) # None)

\* C14: in the Redis variant the get(k) that follows set(k, v) returns a
\* value equal to v.
C14_RedisRoundTrip ==
    [][\A k \in Keys :
        (/\ cacheBackend = "redis" /\ scan.pc = "idle"
         /\ GetReturned(k) /\ ret.op = "set" /\ ret.key = k)
        => ret'.val = lastSet[k].value]_vars

\* C15: RedisCache.clear leaves every key outside the "cache:" prefix as it
\* was, and when it returns without a write having run meanwhile no
\* "cache:" key is left.
C15_ClearOnlyCachePrefix ==
    [][scan' # scan
        => /\ \A fk \in ForeignKeys :
                /\ (fk \in DOMAIN store') <=> (fk \in DOMAIN store)
                /\ fk \in DOMAIN store => store'[fk] = store[fk]
           /\ (scan'.pc = "idle" /\ ~scan.wrote)
                => \A k \in Keys : ~LiveIn(store', now', MakeKey(k))]_vars
C15_Witness ==
    /\ cacheBackend = "redis" /\ ret.op = "clear" /\ ret.n = 2
    /\ scan.pc = "idle" /\ ~scan.wrote
    /\ \A fk \in ForeignKeys : fk \in DOMAIN store /\ store[fk] = ForeignStore[fk]
    /\ \A k \in Keys : MakeKey(k) \notin DOMAIN store

SetReturned(k) ==
    opCount' = opCount + 1 /\ ret'.op = "set" /\ ret'.key = k
\* the expiry instant of k's entry in the serving variant
EntryExpiry(c, st, k) ==
    IF cacheBackend = "local" THEN c[k].expiresAt ELSE st[MakeKey(k)].expireAt

\* C17: in both variants a set(k, v2, ttl2) over an existing entry leaves an
\* entry whose expiry comes from ttl2 alone (none when ttl2 is omitted), and
\* the get(k) that follows returns v2.
C17_SetOverwrites ==
    [][\A k \in Keys :
        /\ (SetReturned(k) /\ lastSet'[k].over)
           => EntryExpiry(cache', store', k)
                = IF lastSet'[k].ttl = NoTTL THEN NoExpiry ELSE now + lastSet'[k].ttl
        /\ (/\ scan.pc = "idle" /\ GetReturned(k)
            /\ ret.op = "set" /\ ret.key = k /\ lastSet[k].over)
           => ret'.val = lastSet[k].value]_vars

\* C18: whatever the interleaving of concurrent calls on the local cache,
\* every call returns what it would return run atomically at one instant
\* between its invocation and its return, and between calls the dict is the
\* one those atomic calls leave.
C18_Linearizable ==
    /\ \A p \in Procs : cpc[p] = "release" => cres[p] = cexp[p]
    /\ cacheLock = Free => cache = absCache
C18_Witness ==
    \E p, q \in Procs :
        /\ cpc[p] = "release" /\ cop[p].op = "get" /\ cres[p] = Res("b")
        /\ cpc[q] = "acquire" /\ cop[q].op = "set"
        /\ cop[q].key = cop[p].key /\ cop[q].value = "a"

SameArguments(a, b) == a.args = b.args /\ a.kwargs = b.kwargs

\* C19: of two successive calls with identical arguments, the second over
\* before the TTL counted from the first call's start has run out, the
\* second does not invoke the operation and returns the first one's result.
C19_InvokedOnce ==
    \A i \in 1..(Len(memoLog) - 1) :
        (/\ SameArguments(memoLog[i], memoLog[i + 1])
         /\ memoLog[i + 1].end <= memoLog[i].t + MemoTTL)
        => /\ ~memoLog[i + 1].invoked
           /\ memoLog[i + 1].result = memoLog[i].result

\* C20: calls with different arguments have different cache keys, and no
\* call returns a result the operation computed for other arguments.
C20_DistinctArgumentsDistinctKeys ==
    /\ \A i, j \in 1..Len(memoLog) :
        ~SameArguments(memoLog[i], memoLog[j]) => memoLog[i].key # memoLog[j].key
    /\ \A i \in 1..Len(memoLog) :
        memoLog[i].result = Func(memoLog[i].args, memoLog[i].kwargs)

\* the lookup of the wrapper call in progress finds a value
MemoHit == mpc = "get" /\ MemoLookup(mcall.key) # PyNone

\* C21: a wrapper call whose lookup finds a value leaves the cache as it is
\* and neither invokes the operation nor writes; a call whose lookup finds
\* nothing invokes the operation once and writes once, the result under the
\* computed key, expiring MemoTTL after the write.
C21_OneWritePerMiss ==
    /\ [][(MemoHit /\ mpc' # mpc) => (cache' = cache /\ mpc' = "idle")]_vars
    /\ [](\A i \in 1..Len(memoLog) :
            IF memoLog[i].invoked
            THEN /\ memoLog[i].calls = 1 /\ memoLog[i].writes = 1
                 /\ memoLog[i].wrote
                      = [key |-> CacheKey(memoLog[i].args, memoLog[i].kwargs),
                         entry |-> Entry(memoLog[i].result, memoLog[i].end + MemoTTL)]
            ELSE /\ memoLog[i].calls = 0 /\ memoLog[i].writes = 0
                 /\ memoLog[i].wrote = NoWrite)
C21_Witness ==
    /\ Len(memoLog) = 2
    /\ memoLog[1].invoked /\ memoLog[1].writes = 1
    /\ ~memoLog[2].invoked /\ memoLog[2].writes = 0
    /\ memoLog[2].result = memoLog[1].result
    /\ memoLog[2].t > memoLog[1].end

\* C22: a caller whose lookup missed invokes the operation itself whatever
\* the other callers are doing, and its cache.set replaces whatever is
\* stored under the key, so of two concurrent results the last written stays.
C22_NoCoalescing ==
    [][\A p \in Procs :
        /\ (wst[p].pc = "func" /\ wst'[p] # wst[p])
           => wcalls' = wcalls + 1 /\ wst'[p].pc = "set"
        /\ (wst[p].pc = "set" /\ wst'[p] # wst[p])
           => /\ Len(wwrites') = Len(wwrites) + 1
              /\ wst[p].key \in DOMAIN cache'
              /\ cache'[wst[p].key].value = wst[p].result]_vars
C22_Witness ==
    /\ now = 0 /\ wcalls = 2 /\ Len(wwrites) = 2
    /\ wwrites[1].key = wwrites[2].key
    /\ wwrites[1].by # wwrites[2].by
    /\ wwrites[1].result # wwrites[2].result
    /\ cache[wwrites[2].key].value = wwrites[2].result

\* C23: when startup has completed, a successful probe has bound both the
\* cache and the rate limiter to their Redis variants, a failed probe or a
\* failed client creation has left both on their in-memory variants (and
\* startup completed all the same), and the two bindings agree.
C23_StartupBindsBothOrNeither ==
    /\ probe \in {"failed", "no_client"} => spc = "running"
    /\ spc = "running" =>
        /\ probe = "ok" => (cacheBackend = "redis" /\ backend = "redis")
        /\ probe \in {"failed", "no_client"} =>
              (cacheBackend \in {"unset", "local"} /\ backend \in {"unset", "local"})
        /\ (cacheBackend = "redis") <=> (backend = "redis")

C23_Witness ==
    /\ spc = "running" /\ probe = "ok"
    /\ cacheBackend = "redis" /\ backend = "redis"
    /\ Len(outLog) = 1 /\ outLog[1].status = 200

\* C24: once bound to Redis, the cache and the limiter stay bound to Redis
\* through every request, lookup and store failure; the only change of a
\* binding between variants is the one to Redis made during startup.
C24_NoFailback ==
    [][/\ (cacheBackend = "redis" => cacheBackend' = "redis")
       /\ (backend = "redis" => backend' = "redis")
       /\ (spc = "running" =>
             /\ (cacheBackend' = "redis") <=> (cacheBackend = "redis")
             /\ (backend' = "redis") <=> (backend = "redis"))]_vars

C24_Witness ==
    /\ cacheBackend = "redis" /\ backend = "redis"
    /\ Len(outLog) = AppRequests
    /\ \E i \in 1..Len(outLog) : outLog[i].kind = "dep" /\ outLog[i].status = 500
    /\ \E i \in 1..Len(outLog) : outLog[i].kind = "memo" /\ outLog[i].status = 500

\* C25: with rate limiting disabled the dependency never enters the limiter,
\* never answers 429, lets every request through to the handler and leaves
\* the windows of both limiter variants as they were.
C25_DisabledIsPassThrough ==
    /\ [](~enabled =>
            /\ rq.pc \notin {"check", "pipeline", "zrem"}
            /\ rq.status # 429
            /\ backend # "local"
            /\ \A i \in 1..Len(outLog) :
                  outLog[i].kind = "dep" => outLog[i].status = 200)
    /\ [][~enabled => UNCHANGED <<requests, zset, expireAt>>]_vars

C25_Witness ==
    /\ ~enabled
    /\ Len(outLog) = AppRequests /\ AppRequests > limit
    /\ \A i \in 1..Len(outLog) : outLog[i].kind = "dep" /\ outLog[i].status = 200
    /\ handled = AppRequests
    /\ requests[AppKey] = <<>> /\ zset[AppKey] = {}

\* C26: the dependency answers 429 exactly when the limiter reported
\* is_limited; the 429 carries the limit, remaining "0", the window as reset
\* and as retry-after; a limited request goes straight to the response and
\* the handler only ever runs for a request that was not limited.
C26_RejectsIffLimited ==
    /\ [](/\ rq.kind = "dep" => ((rq.status = 429) <=> rq.limited)
          /\ rq.limited =>
                /\ rq.pc = "respond"
                /\ rq.headers = [limit |-> IntStr(limit), remaining |-> <<"0">>,
                                 reset |-> IntStr(window), retryAfter |-> IntStr(window)]
          /\ \A i \in 1..Len(outLog) :
                outLog[i].kind = "dep" => ((outLog[i].status = 429) <=> outLog[i].limited))
    /\ [][handled' # handled => (rq.pc = "handler" /\ ~rq.limited /\ rq'.status = 200)]_vars

C26_Witness ==
    /\ Len(outLog) = 2
    /\ outLog[1].kind = "dep" /\ outLog[1].status = 200 /\ ~outLog[1].limited
    /\ outLog[2].kind = "dep" /\ outLog[2].status = 429 /\ outLog[2].limited
    /\ outLog[2].headers.retryAfter = <<"2">>
    /\ handled = 1

\* C27: a step of a Redis limiter or Redis cache operation taken while the
\* store refuses ends the request with an error (neither 200 nor 429, no
\* limiter decision, no cached or computed result) and changes neither the
\* bindings nor the running process nor the count of handled requests.
StoreStep ==
    \/ rq.pc \in {"pipeline", "zrem"}
    \/ (rq.pc \in {"lookup", "store"} /\ cacheBackend = "redis")

C27_StoreFailureIsVisible ==
    [][(StoreStep /\ storeState = "down" /\ rq' # rq) =>
          /\ rq'.pc = "respond" /\ rq'.status = 500
          /\ ~rq'.limited /\ rq'.result = None
          /\ UNCHANGED <<backend, cacheBackend, spc, handled, requests, cache>>]_vars

C27_Witness ==
    /\ spc = "running" /\ backend = "redis" /\ cacheBackend = "redis"
    /\ Len(outLog) = 2
    /\ outLog[1].status = 500 /\ outLog[1].kind = "memo"
    /\ outLog[2].status = 200 /\ outLog[2].kind = "memo" /\ outLog[2].result = "a"

\* C28: a memoized call during which the cache backend fails still answers
\* with the result of the underlying operation: every response of a cached
\* function is a success carrying the operation's result.
C28_CacheFailureGivesFreshResult ==
    \A i \in 1..Len(outLog) :
        outLog[i].kind = "memo" => (outLog[i].status = 200 /\ outLog[i].result = "a")

\* C29: a coroutine waiting for an answer of the store (the startup probe, a
\* limiter step, a Redis cache step) eventually stops waiting, whatever the
\* store does.
AwaitingStore ==
    \/ spc = "ping"
    \/ StoreStep

C29_StoreCallsComplete == [](AwaitingStore => <>~AwaitingStore)

C31_EmailUnique ==
    /\ [](\A u \in DOMAIN users : \A v \in DOMAIN users :
            Lower(users[u].email) = Lower(users[v].email) => u = v)
    /\ [][(authRes'.op = "register" /\ authRes' # authRes) =>
            IF \E u \in DOMAIN users : Lower(users[u].email) = Lower(authRes'.email)
            THEN authRes'.status = 400 /\ users' = users /\ nextId' = nextId
            ELSE /\ authRes'.status = 201
                 /\ DOMAIN users' = DOMAIN users \cup {nextId}]_vars

C31_Witness ==
    /\ authRes.op = "register" /\ authRes.status = 400 /\ authRes.email = <<"A">>
    /\ DOMAIN users = {2}
    /\ users[2].email = <<"a">> /\ users[2].name = "n1"

\* C32: a deactivate request whose target is the authenticated superuser
\* making it answers 400 and changes no user; and whenever a user goes from
\* active to inactive, the request that did it came from another user.
C32_NoSelfDeactivation ==
    [][/\ (/\ authRes' # authRes
           /\ authRes'.op = "deactivate"
           /\ authRes'.status \notin {401, 403}
           /\ authRes'.user = StrInt(authRes'.token.sub))
          => (authRes'.status = 400 /\ users' = users)
       /\ \A u \in DOMAIN users :
            (u \in DOMAIN users' /\ users[u].active /\ ~users'[u].active)
            => (/\ authRes'.op = "deactivate" /\ authRes'.status = 200
                /\ authRes'.user = u
                /\ StrInt(authRes'.token.sub) # u)]_vars

C32_Witness ==
    /\ authRes.op = "deactivate" /\ authRes.status = 400
    /\ authRes.user = 1 /\ authRes.token.sub = <<"1">>
    /\ users[1].active /\ users[1].superuser

\* C33: the access token a successful refresh returns differs from the
\* access token that was issued together with the refresh token presented.
C33_RefreshIssuesNewAccessToken ==
    [][(authRes' # authRes /\ authRes'.op = "refresh" /\ authRes'.status = 200) =>
          LET r == authRes'.token
              returned == {a \in tokens' : a.type = "access" /\ a.sub = r.sub /\ a.iat = now}
              paired == {a \in tokens : a.type = "access" /\ a.sub = r.sub /\ a.iat = r.iat}
          IN  returned \cap paired = {}]_vars

\* C34: Redis limiter, no call in progress: the members of a key's sorted
\* set that lie inside the window are as many as the admitted calls inside
\* the window since the last reset.
C34_EveryAdmittedCallCounted ==
    (backend = "redis" /\ \A p \in Procs : pc[p] = "idle") =>
        \A k \in Keys :
            Cardinality({m \in Live(k) : m > now - window})
              = Cardinality(AdmittedBefore(log[k], Len(log[k]) + 1, now - window))

\* C35: Redis limiter: when the call of a request that must be rejected
\* ends, by returning or by a failure of the store, the member its ZADD
\* added is no longer in the key's sorted set.
C35_SpeculativeMemberRemoved ==
    [][(rq.pc = "zrem" /\ rq.added /\ rq'.pc # "zrem") =>
          rq.tnow \notin zset'[AppKey]]_vars

\* C36: Redis limiter with one window length: the pipeline of every check
\* sets the key's expiry to window seconds from then; a key that holds
\* members always has an expiry at most window seconds away, so it is gone
\* once window seconds pass without a check; and the expiry of a key is
\* never earlier than the moment its newest member leaves the window.
C36_IdleKeysExpire ==
    /\ [](backend = "redis" =>
            \A k \in Keys :
                /\ zset[k] # {} =>
                      (expireAt[k] # NoExpiry /\ expireAt[k] <= now + window)
                /\ \A m \in zset[k] : m + window <= expireAt[k])
    /\ [][\A p \in Procs :
            (pc[p] = "pipe" /\ pc'[p] # "pipe") =>
                expireAt'[arg[p]] = now + window]_vars

C36_Witness ==
    /\ backend = "redis"
    /\ Len(log["k1"]) = 2
    /\ log["k1"][1].t = 0 /\ ~log["k1"][1].limited
    /\ log["k1"][2].t = 61 /\ log["k1"][2].remaining = limit - 1
    /\ zset["k1"] = {61}

\* C37: a sweep (the only step that changes the timestamps without a call
\* moving or returning) keeps, for every key, exactly the timestamps of the
\* last hour, in order; so for a window of at most an hour the timestamps a
\* check at any later instant counts are the same with and without it.
CleanupStep == requests' # requests /\ pc' = pc /\ log' = log

C37_CleanupKeepsLastHour ==
    [][CleanupStep =>
          \A k \in Keys :
              /\ requests'[k] = SelectSeq(requests[k], LAMBDA ts : ts > now - 3600)
              /\ window <= 3600 =>
                    \A t \in CleanupTimes :
                        t >= now => Prune(requests'[k], t - window)
                                      = Prune(requests[k], t - window)]_vars

C37_Witness ==
    /\ window = 3600 /\ now = 3601
    /\ Len(log["k1"]) = 2
    /\ log["k1"][1].t = 0 /\ IsAdmitted(log["k1"][1])
    /\ log["k1"][2].t = 3540 /\ IsAdmitted(log["k1"][2])
    /\ requests["k1"] = <<3540>>

\* C38: a step of a check or a reset made for one caller (a client on a
\* route) changes the recorded events, the expiry and the history of no other
\* caller's key: the default keys of different callers are different keys,
\* and both limiters touch only the key they are called with.
ActsOn(k) ==
    \/ \E p \in Procs : pc[p] # "idle" /\ pc'[p] # pc[p] /\ arg[p] = k
    \/ Len(log'[k]) = Len(log[k]) + 1 /\ Last(log'[k]).op = "reset"

Untouched(k) ==
    /\ requests'[k] = requests[k]
    /\ zset'[k] = zset[k]
    /\ expireAt'[k] = expireAt[k]
    /\ log'[k] = log[k]

C38_KeysIndependent ==
    [][\A c \in Callers : \A d \in Callers \ {c} :
          ActsOn(DefaultKey(c[1], c[2])) => Untouched(DefaultKey(d[1], d[2]))]_vars

C38_Witness ==
    LET mine == DefaultKey(<<"1">>, <<"/">>)
        otherClient == DefaultKey(<<"1", ":", "1">>, <<"/">>)
        otherRoute == DefaultKey(<<"1">>, <<"/", ":", "1">>)
    IN  /\ limit = 1
        /\ Len(log[mine]) = 2
        /\ IsAdmitted(log[mine][1]) /\ IsRejected(log[mine][2])
        /\ Len(log[otherClient]) = 1
        /\ IsAdmitted(log[otherClient][1])
        /\ log[otherClient][1].remaining = limit - 1
        /\ log[otherRoute] = <<>>

\* C39: a call that authenticates its caller answers 401 when the token it
\* is given is not an access token, and a refresh answers 401 when the token
\* it is given is not a refresh token, also while the token is unexpired and
\* its user exists and is active.
AuthenticatedOps == {"request", "update", "delete", "activate", "deactivate"}

C39_TokenTypesNotInterchangeable ==
    /\ (authRes.op \in AuthenticatedOps /\ authRes.token.type # "access")
          => authRes.status = 401
    /\ (authRes.op = "refresh" /\ authRes.token.type # "refresh")
          => authRes.status = 401

C39_Witness ==
    /\ authRes.op = "refresh" /\ authRes.token.type = "access"
    /\ authRes.fresh /\ authRes.live
    /\ authRes.status = 401
    /\ \E t \in tokens : t.type = "refresh"
                          /\ t.sub = authRes.token.sub /\ now <= t.exp

\* C40: every geocode request is answered by what the geocoder did: 422
\* TIMEOUT when the call timed out, 422 NO_RESULTS for zero results, 422
\* PROVIDER_ERROR:GEOCODING_FAILED for any other failure, and 200 when it
\* answered, with the enrichment present exactly when a place id was given
\* and the places call succeeded.
C40_GeocodeErrorMapping ==
    \A i \in 1..Len(geoLog) :
        LET r == geoLog[i]
        IN  /\ r.geocoder = "timeout" => (r.status = 422 /\ r.detail = "TIMEOUT")
            /\ r.geocoder = "ZERO_RESULTS" => (r.status = 422 /\ r.detail = "NO_RESULTS")
            /\ r.geocoder \in {"REQUEST_DENIED", "bad_body"}
                  => (r.status = 422 /\ r.detail = "PROVIDER_ERROR:GEOCODING_FAILED")
            /\ r.geocoder = "OK"
                  => /\ r.status = 200
                     /\ r.enrichment <=> (r.place_id /\ r.places = "ok")
====
